---- MODULE Spec2Model ----
(***************************************************************************)
(* A model of the multi-agent decision engine of maxhearts/scuttle:        *)
(*   - archetypes/base.py   : ChatLog, geometry helpers, get_rarity,        *)
(*                            generate_chat, destroy_lowest_value,          *)
(*                            run_agent (the per-agent decision loop)       *)
(*   - archetypes/tryhard.py: TryhardStrategy (Aggressive-Safe policy)      *)
(*   - simulation.py        : the stop signal set by main                   *)
(*                                                                         *)
(* Numbers.  Coordinates are integers counted in quarters of a game unit   *)
(* (the smallest coordinate literal of the code is 0.25), safety modifiers *)
(* in hundredths, colour channels in 1/255.  Comparisons of one distance   *)
(* with a constant or with another distance are done on squares and are    *)
(* exact.  can_reach_before_tsunami adds two distances; Sqrt is the        *)
(* integer square root, which is the exact distance whenever the squared   *)
(* distance is a perfect square, and the inputs of the specifications are  *)
(* restricted to such positions (ExactDistances).  Floating-point rounding *)
(* is not modelled.                                                        *)
(***************************************************************************)
EXTENDS Integers, Sequences, FiniteSets, TLC

VARIABLES
    \* ---- run_agent (one agent thread) ----
    stop,            \* stop_event.is_set()
    pc,              \* position of the agent thread in run_agent
    last_position,   \* last_position (NoPos = None)
    stuck_cycles,    \* stuck_cycles
    chat_counter,    \* chat_counter
    client,          \* anthropic_client is not None (fixed at start)
    pending,         \* send_input calls the current cycle still has to make
    sent,            \* send_input calls the current cycle has made, in order
    cyc,             \* what the current (or, at pc = "top", the last) cycle observed and did
    \* ---- notification tasks (generate_chat._do_chat threads) ----
    tasks,           \* number of live notification threads at each stage
    \* ---- CHAT_LOG ----
    log,             \* CHAT_LOG._messages
    lock,            \* holder of CHAT_LOG._lock
    nadds,           \* number of messages appended so far (labels the messages)
    \* ---- direct callers of ChatLog (specification SpecLog) ----
    caller,          \* per calling thread: its position in add / recent
    \* ---- a targeting policy applied to one snapshot (specification SpecPolicy) ----
    psnap,           \* the snapshot handed to find_target
    pout             \* what find_target returned

vars == <<stop, pc, last_position, stuck_cycles, chat_counter, client, pending,
          sent, cyc, tasks, log, lock, nadds, caller, psnap, pout>>

agentVars == <<pc, last_position, stuck_cycles, chat_counter, client, pending, sent, cyc>>
logVars == <<log, lock, nadds>>
policyVars == <<psnap, pout>>

-----------------------------------------------------------------------------
(* Program constants *)

Unit == 4                        \* coordinates are in 1/Unit game units (0.25 = 1/4)
ModScale == 100                  \* safety modifiers are in 1/ModScale
ColorScale == 255                \* colour channels are in 1/ColorScale

BASE_ZONE_X == 350
COLLECTION_RANGE == 5
PLAYER_SPEED_BASE == 16
PLAYER_SPEED_PER_LEVEL_X2 == 11  \* PLAYER_SPEED_PER_LEVEL = 5.5
TSUNAMI_SPEED == 50
CHAT_MAXLEN == 25
STUCK_THRESHOLD == 5
STUCK_EPSILON == 1
NEAR_RADIUS == 20                \* distance(...) < 20 near base, > 20 far from the shop
VOID_Y == -100                   \* position[1] > -100: the entity has not fallen
TSUNAMI_INACTIVE_X == -400       \* tsunami_active = tsunami_x > -400
TSUNAMI_ABSENT_X == -500         \* tsunami_x when no wave entity is observed
AGGRESSIVE_THRESHOLD == 2500
MAX_SPEED_LEVEL == 10
DEFAULT_BASE_X == 375            \* attrs.get('BaseCenterX', 375)

RARITY_ORDER == <<"Secret", "Legendary", "Epic", "Rare", "Uncommon", "Common">>

\* A position <<x, y, z>> given in game units, y in quarters of a unit.
At(x, yq, z) == <<Unit * x, yq, Unit * z>>

SPEED_SHOP == At(490, 10, 84)               \* [490.0, 2.5, 84.0]
BaseCenter(bx, bz) == At(bx, 1, bz)         \* [BaseCenterX, 0.25, BaseCenterZ]
NoPos == <<>>                               \* None

-----------------------------------------------------------------------------
(* Geometry: base.py distance, dist_xz, is_in_base_zone *)

Abs(n) == IF n < 0 THEN -n ELSE n
Sq(n) == n * n

\* Squared 3D distance, in (1/Unit)^2.
DistSq(p, q) == Sq(p[1] - q[1]) + Sq(p[2] - q[2]) + Sq(p[3] - q[3])

\* Squared planar distance (dist_xz ignores the Y axis).
DistXZSq(p, q) == Sq(p[1] - q[1]) + Sq(p[3] - q[3])

RECURSIVE SqrtBetween(_, _, _)
SqrtBetween(n, lo, hi) ==
    IF lo >= hi THEN lo
    ELSE LET mid == (lo + hi + 1) \div 2
         IN  IF mid * mid <= n THEN SqrtBetween(n, mid, hi)
                               ELSE SqrtBetween(n, lo, mid - 1)

\* Integer square root; the exact root of a perfect square.
Sqrt(n) == SqrtBetween(n, 0, 46340)

IsSquare(n) == Sq(Sqrt(n)) = n

\* distance(p, q), in 1/Unit; exact when DistSq is a perfect square.
distance(p, q) == Sqrt(DistSq(p, q))

\* distance(p, q) < r, with r in game units (exact).
DistLess(p, q, r) == DistSq(p, q) < Sq(Unit * r)

\* distance(p, q) > r, with r in game units (exact).
DistMore(p, q, r) == DistSq(p, q) > Sq(Unit * r)

is_in_base_zone(p) == p[1] > Unit * BASE_ZONE_X

-----------------------------------------------------------------------------
(* Rarity: base.py get_rarity, rarity_priority *)

InOrder(r) == \E i \in 1..Len(RARITY_ORDER) : RARITY_ORDER[i] = r

\* abs(channel - target) < 0.01, channels in 1/ColorScale
ColorNear(ch, target) == Abs(ch - target) * 100 < ColorScale

\* A variant of get_rarity that reads the Zone attribute only.
get_rarity_zone_only(b) ==
    IF b.zone # "" /\ InOrder(b.zone) THEN b.zone ELSE "Common"

\* A brainrot is [position, zone, color]; zone "" = no Zone attribute,
\* color a tuple of channel values (shorter than 3 = missing).
get_rarity(b) ==
    IF b.zone # "" /\ InOrder(b.zone) THEN b.zone
    ELSE IF Len(b.color) < 3 THEN "Common"
    ELSE LET r == b.color[1]  g == b.color[2]  bl == b.color[3] IN
         IF ColorNear(r, 255) /\ ColorNear(g, 255) /\ ColorNear(bl, 255) THEN "Secret"
         ELSE IF ColorNear(r, 255) /\ ColorNear(g, 255) /\ ColorNear(bl, 50) THEN "Legendary"
         ELSE IF ColorNear(r, 255) /\ ColorNear(g, 150) /\ ColorNear(bl, 50) THEN "Epic"
         ELSE IF ColorNear(r, 180) /\ ColorNear(g, 100) /\ ColorNear(bl, 255) THEN "Rare"
         ELSE IF ColorNear(r, 100) /\ ColorNear(g, 150) /\ ColorNear(bl, 255) THEN "Uncommon"
         ELSE "Common"

\* RARITY_ORDER.index(rarity), len(RARITY_ORDER) when absent (0 = Secret)
rarity_priority(r) ==
    IF InOrder(r) THEN (CHOOSE i \in 1..Len(RARITY_ORDER) : RARITY_ORDER[i] = r) - 1
    ELSE Len(RARITY_ORDER)

-----------------------------------------------------------------------------
(* Python list helpers.  A list of brainrots is handled as the sequence of  *)
(* its indices into the snapshot's brainrots, in list order.                *)

Indices(seq) == [i \in 1..Len(seq) |-> i]

\* min(xs, key=...): the first element with the least key; keys[k] is the key of xs[k].
MinFirst(xs, keys) ==
    xs[CHOOSE k \in 1..Len(xs) :
          \A j \in 1..Len(xs) : /\ keys[k] <= keys[j]
                                /\ (j < k => keys[j] > keys[k])]

\* max(xs, key=...): the first element with the greatest key; keys[k] is the key of xs[k].
MaxFirst(xs, keys) ==
    xs[CHOOSE k \in 1..Len(xs) :
          \A j \in 1..Len(xs) : /\ keys[k] >= keys[j]
                                /\ (j < k => keys[j] < keys[k])]

\* key=lambda b: distance(pos, b['position']) over a list xs of candidates
\* (the squared distance orders as the distance does)
DistKeys(pos, brainrots, xs) == [k \in 1..Len(xs) |-> DistSq(pos, brainrots[xs[k]].position)]

\* min([...]) of a non-empty list of numbers
MinOf(xs) == CHOOSE m \in {xs[i] : i \in 1..Len(xs)} : \A i \in 1..Len(xs) : m <= xs[i]

-----------------------------------------------------------------------------
(* Actions returned by a policy.  None is the record of type "None"; the    *)
(* field target is not part of the Python dict: it records the index of the *)
(* brainrot the action was built for (0 when there is none).                *)

NoAction == [type |-> "None", position |-> NoPos, rarity |-> "", event |-> <<>>, target |-> 0]
WaitAction == [type |-> "Wait", position |-> NoPos, rarity |-> "",
               event |-> <<"waiting for wave reset">>, target |-> 0]

-----------------------------------------------------------------------------
(* archetypes/tryhard.py : TryhardStrategy *)

\* 2 * _player_speed(speed_level)
TryhardPlayerSpeedX2(speed_level) ==
    2 * PLAYER_SPEED_BASE + (speed_level - 1) * PLAYER_SPEED_PER_LEVEL_X2

TryhardBaseSafetyMargin(speed_level) ==
    IF speed_level >= 10 THEN 3
    ELSE IF speed_level >= 8 THEN 4
    ELSE IF speed_level >= 5 THEN 5
    ELSE 6

\* can_reach_before_tsunami: total_ticks_needed < ticks_until_tsunami - safety_margin,
\*   dist_to/(speed) + 1 + dist_back/speed < (deposit_x - tsunami_x)/TSUNAMI_SPEED - margin * modifier
\* both sides multiplied by Unit * 2*speed * TSUNAMI_SPEED * ModScale (> 0).
TryhardCanReach(player_pos, brainrot_pos, deposit_pos, tsunami_x, speed_level, sm) ==
    LET s2 == TryhardPlayerSpeedX2(speed_level)
        dist_to_brainrot == distance(player_pos, brainrot_pos)
        dist_brainrot_to_deposit == distance(brainrot_pos, deposit_pos)
        needed == 2 * TSUNAMI_SPEED * ModScale * (dist_to_brainrot + dist_brainrot_to_deposit)
                  + Unit * s2 * TSUNAMI_SPEED * ModScale
        until == s2 * ModScale * (deposit_pos[1] - tsunami_x)
        margin == Unit * s2 * TSUNAMI_SPEED * TryhardBaseSafetyMargin(speed_level) * sm
    IN  needed < until - margin

\* _move_or_collect
TryhardMoveOrCollect(pos, brainrots, i, rarity, event) ==
    IF DistLess(pos, brainrots[i].position, COLLECTION_RANGE)
    THEN [type |-> "Collect", position |-> NoPos, rarity |-> rarity,
          event |-> <<"collected", rarity>>, target |-> i]
    ELSE [type |-> "MoveTo", position |-> brainrots[i].position, rarity |-> rarity,
          event |-> event, target |-> i]

\* The rarities of RARITY_ORDER that have a member among the candidates, in order.
TiersPresent(brainrots, candidates) ==
    SelectSeq(RARITY_ORDER,
              LAMBDA r : \E k \in 1..Len(candidates) : get_rarity(brainrots[candidates[k]]) = r)

\* A variant of _furthest_by_rarity that takes the nearest member of the tier.
TryhardNearestByRarity(pos, brainrots, candidates) ==
    LET tiers == TiersPresent(brainrots, candidates) IN
    IF tiers = <<>> THEN <<>>
    ELSE LET rarity == Head(tiers)
             group == SelectSeq(candidates, LAMBDA i : get_rarity(brainrots[i]) = rarity)
         IN  <<MinFirst(group, DistKeys(pos, brainrots, group)), rarity>>

\* _furthest_by_rarity: <<index, rarity>>, or <<>> for None
TryhardFurthestByRarity(pos, brainrots, candidates) ==
    LET tiers == TiersPresent(brainrots, candidates) IN
    IF tiers = <<>> THEN <<>>
    ELSE LET rarity == Head(tiers)
             group == SelectSeq(candidates, LAMBDA i : get_rarity(brainrots[i]) = rarity)
         IN  <<MaxFirst(group, DistKeys(pos, brainrots, group)), rarity>>

\* _find_nearest_valuable: <<index, rarity>>, or <<>> for None
TryhardFindNearestValuable(pos, brainrots, candidates) ==
    LET tiers == TiersPresent(brainrots, candidates) IN
    IF tiers = <<>> THEN <<>>
    ELSE LET rarity == Head(tiers)
             group == SelectSeq(candidates, LAMBDA i : get_rarity(brainrots[i]) = rarity)
         IN  <<MinFirst(group, DistKeys(pos, brainrots, group)), rarity>>

\* valid = alive and outside the base zone
TryhardValid(brainrots) ==
    SelectSeq(Indices(brainrots),
              LAMBDA i : /\ brainrots[i].position[2] > Unit * VOID_Y
                         /\ ~is_in_base_zone(brainrots[i].position))

TryhardReachable(pos, brainrots, tsunami_x, base_center, speed_level, sm) ==
    SelectSeq(TryhardValid(brainrots),
              LAMBDA i : TryhardCanReach(pos, brainrots[i].position, base_center,
                                         tsunami_x, speed_level, sm))

\* A variant of the Wait rule that does not look at where the player is.
TryhardWaitsAnywhere(pos, reachable, tsunami_x, base_center) ==
    tsunami_x > Unit * TSUNAMI_INACTIVE_X /\ reachable = <<>>

\* A variant of the Wait rule that applies only until the wave has passed the base.
TryhardWaitsUntilPassed(pos, reachable, tsunami_x, base_center) ==
    /\ tsunami_x > Unit * TSUNAMI_INACTIVE_X
    /\ tsunami_x <= base_center[1]
    /\ reachable = <<>>
    /\ DistLess(pos, base_center, NEAR_RADIUS)

\* the Wait rule of find_target
TryhardWaits(pos, reachable, tsunami_x, base_center) ==
    LET tsunami_active == tsunami_x > Unit * TSUNAMI_INACTIVE_X
    IN  tsunami_active /\ reachable = <<>> /\ DistLess(pos, base_center, NEAR_RADIUS)

\* the aggressive (post-wave) condition of find_target
TryhardAggressive(pos, tsunami_x, base_center, money) ==
    LET tsunami_passed == tsunami_x > base_center[1]
    IN  money >= AGGRESSIVE_THRESHOLD /\ tsunami_passed
        /\ DistLess(pos, base_center, NEAR_RADIUS)

\* find_target(pos, brainrots, tsunami_x, base_center, speed_level, money, attrs)
\* of a strategy whose safety_modifier is sm
TryhardFindTarget(pos, brainrots, tsunami_x, base_center, speed_level, money, sm) ==
    LET valid == TryhardValid(brainrots)
        reachable == TryhardReachable(pos, brainrots, tsunami_x, base_center, speed_level, sm)
        aggr == TryhardFindNearestValuable(pos, brainrots, valid)
        normal == TryhardFurthestByRarity(pos, brainrots, reachable)
    IN  IF TryhardWaits(pos, reachable, tsunami_x, base_center) THEN WaitAction
        ELSE IF TryhardAggressive(pos, tsunami_x, base_center, money) /\ aggr # <<>>
        THEN TryhardMoveOrCollect(pos, brainrots, aggr[1], aggr[2],
                                  <<"aggressive mode - nearest valuable">>)
        ELSE IF normal # <<>>
        THEN TryhardMoveOrCollect(pos, brainrots, normal[1], normal[2],
                                  <<"targeting", normal[2]>>)
        ELSE IF valid # <<>>
        THEN LET nearest == MinFirst(valid, DistKeys(pos, brainrots, valid))
             IN  TryhardMoveOrCollect(pos, brainrots, nearest, get_rarity(brainrots[nearest]),
                                      <<"risky nearest fallback">>)
        ELSE NoAction

-----------------------------------------------------------------------------
(* archetypes/gambler.py : GamblerStrategy *)

\* A variant of _player_speed that ignores the speed level.
GamblerPlayerSpeedFlatX2(speed_level) == 2 * PLAYER_SPEED_BASE

\* 2 * _player_speed(speed_level)
GamblerPlayerSpeedX2(speed_level) ==
    2 * PLAYER_SPEED_BASE + (speed_level - 1) * PLAYER_SPEED_PER_LEVEL_X2

\* A variant of is_safe_enough that counts a round trip (from the deposit point
\* to the brainrot and back) and the tick to collect.
GamblerIsSafeEnoughRoundTrip(brainrot_pos, deposit_pos, tsunami_x, speed_level, sm) ==
    LET s2 == GamblerPlayerSpeedX2(speed_level)
        ticks_needed == 2 * TSUNAMI_SPEED * ModScale
                            * (distance(deposit_pos, brainrot_pos)
                               + distance(brainrot_pos, deposit_pos))
                        + Unit * s2 * TSUNAMI_SPEED * ModScale
        ticks_available == s2 * ModScale * (deposit_pos[1] - tsunami_x)
        margin == Unit * s2 * TSUNAMI_SPEED * sm
    IN  ticks_needed < ticks_available - margin

\* is_safe_enough: ticks_to_return < ticks_available - safety_modifier,
\*   dist_back/speed < (deposit_x - tsunami_x)/TSUNAMI_SPEED - modifier
\* both sides multiplied by Unit * 2*speed * TSUNAMI_SPEED * ModScale (> 0).
GamblerIsSafeEnough(brainrot_pos, deposit_pos, tsunami_x, speed_level, sm) ==
    LET s2 == GamblerPlayerSpeedX2(speed_level)
        ticks_to_return == 2 * TSUNAMI_SPEED * ModScale * distance(brainrot_pos, deposit_pos)
        ticks_available == s2 * ModScale * (deposit_pos[1] - tsunami_x)
        margin == Unit * s2 * TSUNAMI_SPEED * sm
    IN  ticks_to_return < ticks_available - margin

\* _move_or_collect
GamblerMoveOrCollect(pos, brainrots, i, rarity, event) ==
    IF DistLess(pos, brainrots[i].position, COLLECTION_RANGE)
    THEN [type |-> "Collect", position |-> NoPos, rarity |-> rarity,
          event |-> <<"collected", rarity>>, target |-> i]
    ELSE [type |-> "MoveTo", position |-> brainrots[i].position, rarity |-> rarity,
          event |-> event, target |-> i]

\* valid = alive and outside the base zone
GamblerValid(brainrots) ==
    SelectSeq(Indices(brainrots),
              LAMBDA i : /\ brainrots[i].position[2] > Unit * VOID_Y
                         /\ ~is_in_base_zone(brainrots[i].position))

\* the loop over valid: the first brainrot of the least priority index
GamblerBest(brainrots, valid) ==
    MinFirst(valid, [k \in 1..Len(valid) |-> rarity_priority(get_rarity(brainrots[valid[k]]))])

\* A variant of the target choice that takes the farthest member of the best tier.
GamblerTargetFarthest(pos, brainrots, valid) ==
    LET best_rarity == get_rarity(brainrots[GamblerBest(brainrots, valid)])
        same_rarity == SelectSeq(valid, LAMBDA i : get_rarity(brainrots[i]) = best_rarity)
    IN  MaxFirst(same_rarity, DistKeys(pos, brainrots, same_rarity))

\* target: the nearest brainrot of the best rarity present among valid
GamblerTarget(pos, brainrots, valid) ==
    LET best_rarity == get_rarity(brainrots[GamblerBest(brainrots, valid)])
        same_rarity == SelectSeq(valid, LAMBDA i : get_rarity(brainrots[i]) = best_rarity)
    IN  MinFirst(same_rarity, DistKeys(pos, brainrots, same_rarity))

\* A variant of find_target that stays put when neither check passes.
GamblerFindTargetCautious(pos, brainrots, tsunami_x, base_center, speed_level, money, sm) ==
    LET valid == GamblerValid(brainrots) IN
    IF valid = <<>> THEN NoAction
    ELSE LET target == GamblerTarget(pos, brainrots, valid)
             best_rarity == get_rarity(brainrots[target])
             fallback == MinFirst(valid, DistKeys(pos, brainrots, valid))
         IN  IF GamblerIsSafeEnough(brainrots[target].position, base_center,
                                    tsunami_x, speed_level, sm)
             THEN GamblerMoveOrCollect(pos, brainrots, target, best_rarity,
                                       <<"chasing", best_rarity>>)
             ELSE IF GamblerIsSafeEnough(brainrots[fallback].position, base_center,
                                         tsunami_x, speed_level, sm)
             THEN GamblerMoveOrCollect(pos, brainrots, fallback,
                                       get_rarity(brainrots[fallback]),
                                       <<"gambler fallback - nearest">>)
             ELSE WaitAction

\* find_target(pos, brainrots, tsunami_x, base_center, speed_level, money, attrs)
\* of a strategy whose safety_modifier is sm
GamblerFindTarget(pos, brainrots, tsunami_x, base_center, speed_level, money, sm) ==
    LET valid == GamblerValid(brainrots) IN
    IF valid = <<>> THEN NoAction
    ELSE IF rarity_priority(get_rarity(brainrots[GamblerBest(brainrots, valid)]))
            >= Len(RARITY_ORDER)
    THEN NoAction
    ELSE LET target == GamblerTarget(pos, brainrots, valid)
             best_rarity == get_rarity(brainrots[GamblerBest(brainrots, valid)])
             fallback == MinFirst(valid, DistKeys(pos, brainrots, valid))
         IN  IF ~GamblerIsSafeEnough(brainrots[target].position, base_center,
                                     tsunami_x, speed_level, sm)
             THEN IF GamblerIsSafeEnough(brainrots[fallback].position, base_center,
                                         tsunami_x, speed_level, sm)
                  THEN GamblerMoveOrCollect(pos, brainrots, fallback,
                                            get_rarity(brainrots[fallback]),
                                            <<"gambler fallback - nearest">>)
                  ELSE GamblerMoveOrCollect(pos, brainrots, target,
                                            get_rarity(brainrots[target]),
                                            <<"YOLO gambler - ignoring danger">>)
             ELSE GamblerMoveOrCollect(pos, brainrots, target, best_rarity,
                                       <<"chasing", best_rarity>>)

-----------------------------------------------------------------------------
(* archetypes/farmer.py : FarmerStrategy *)

\* 2 * _player_speed(speed_level)
FarmerPlayerSpeedX2(speed_level) ==
    2 * PLAYER_SPEED_BASE + (speed_level - 1) * PLAYER_SPEED_PER_LEVEL_X2

\* A variant of is_safe that adds the margin to the time available.
FarmerIsSafeMarginAdded(brainrot_pos, deposit_pos, tsunami_x, speed_level, sm) ==
    LET s2 == FarmerPlayerSpeedX2(speed_level)
        ticks_to_return == 2 * TSUNAMI_SPEED * ModScale * distance(brainrot_pos, deposit_pos)
        ticks_available == s2 * ModScale * (deposit_pos[1] - tsunami_x)
        margin == Unit * s2 * TSUNAMI_SPEED * sm * 3
    IN  ticks_to_return < ticks_available + margin

\* is_safe: ticks_to_return < ticks_available - safety_modifier * 3,
\* both sides multiplied by Unit * 2*speed * TSUNAMI_SPEED * ModScale (> 0).
FarmerIsSafe(brainrot_pos, deposit_pos, tsunami_x, speed_level, sm) ==
    LET s2 == FarmerPlayerSpeedX2(speed_level)
        ticks_to_return == 2 * TSUNAMI_SPEED * ModScale * distance(brainrot_pos, deposit_pos)
        ticks_available == s2 * ModScale * (deposit_pos[1] - tsunami_x)
        margin == Unit * s2 * TSUNAMI_SPEED * sm * 3
    IN  ticks_to_return < ticks_available - margin

\* A variant of _move_or_collect that collects at the interaction radius too.
FarmerMoveOrCollectInclusive(pos, brainrots, i, rarity, event) ==
    IF DistSq(pos, brainrots[i].position) <= Sq(Unit * COLLECTION_RANGE)
    THEN [type |-> "Collect", position |-> NoPos, rarity |-> rarity,
          event |-> <<"collected", rarity>>, target |-> i]
    ELSE [type |-> "MoveTo", position |-> brainrots[i].position, rarity |-> rarity,
          event |-> event, target |-> i]

\* _move_or_collect
FarmerMoveOrCollect(pos, brainrots, i, rarity, event) ==
    IF DistLess(pos, brainrots[i].position, COLLECTION_RANGE)
    THEN [type |-> "Collect", position |-> NoPos, rarity |-> rarity,
          event |-> <<"collected", rarity>>, target |-> i]
    ELSE [type |-> "MoveTo", position |-> brainrots[i].position, rarity |-> rarity,
          event |-> event, target |-> i]

\* A variant of the filters that does not look at the venture limit.
FarmerValidAnywhere(brainrots, venture_limit_x, min_rarity_priority) ==
    LET valid == SelectSeq(Indices(brainrots),
                           LAMBDA i : /\ brainrots[i].position[2] > Unit * VOID_Y
                                      /\ ~is_in_base_zone(brainrots[i].position))
    IN  IF min_rarity_priority > 0
        THEN SelectSeq(valid, LAMBDA i : rarity_priority(get_rarity(brainrots[i]))
                                         >= min_rarity_priority)
        ELSE valid

\* valid: alive, outside the base zone, beyond the venture limit, and of a
\* rarity index at least min_rarity_priority when that is set
FarmerValid(brainrots, venture_limit_x, min_rarity_priority) ==
    LET valid == SelectSeq(Indices(brainrots),
                           LAMBDA i : /\ brainrots[i].position[2] > Unit * VOID_Y
                                      /\ ~is_in_base_zone(brainrots[i].position)
                                      /\ brainrots[i].position[1] > venture_limit_x)
    IN  IF min_rarity_priority > 0
        THEN SelectSeq(valid, LAMBDA i : rarity_priority(get_rarity(brainrots[i]))
                                         >= min_rarity_priority)
        ELSE valid

FarmerSafe(brainrots, valid, tsunami_x, base_center, speed_level, sm) ==
    SelectSeq(valid, LAMBDA i : FarmerIsSafe(brainrots[i].position, base_center,
                                             tsunami_x, speed_level, sm))

\* A variant of the pool choice that never narrows the pool to the safe ones.
FarmerPoolAll(safe, valid) == valid

\* pool = safe if safe else valid
FarmerPool(safe, valid) == IF safe # <<>> THEN safe ELSE valid

\* find_target(pos, brainrots, tsunami_x, base_center, speed_level, money, attrs)
\* of a strategy with the given safety_modifier, venture_limit_x, min_rarity_priority
FarmerFindTarget(pos, brainrots, tsunami_x, base_center, speed_level, money, sm, venture_limit_x, min_rarity_priority) ==
    LET valid == FarmerValid(brainrots, venture_limit_x, min_rarity_priority) IN
    IF valid = <<>> THEN NoAction
    ELSE LET safe == FarmerSafe(brainrots, valid, tsunami_x, base_center, speed_level, sm)
             pool == FarmerPool(safe, valid)
             target == MinFirst(pool, DistKeys(pos, brainrots, pool))
             rarity == get_rarity(brainrots[target])
         IN  FarmerMoveOrCollect(pos, brainrots, target, rarity,
                                 <<"farming", rarity, "in zone">>)

-----------------------------------------------------------------------------
(* play_tsunami.py : the single-agent reference *)

\* 2 * PLAYER_SPEED of can_reach_before_tsunami
ReferencePlayerSpeedX2(speed_level) == 2 * 16 + (speed_level - 1) * 11

\* distance(pos1, pos2), in 1/Unit
ReferenceDistance(pos1, pos2) ==
    Sqrt(Sq(pos1[1] - pos2[1]) + Sq(pos1[2] - pos2[2]) + Sq(pos1[3] - pos2[3]))

\* get_rarity(brainrot): from the colour alone
ReferenceGetRarity(b) ==
    IF Len(b.color) < 3 THEN "Common"
    ELSE LET r == b.color[1]  g == b.color[2]  bl == b.color[3] IN
         IF ColorNear(r, 255) /\ ColorNear(g, 255) /\ ColorNear(bl, 255) THEN "Secret"
         ELSE IF ColorNear(r, 255) /\ ColorNear(g, 255) /\ ColorNear(bl, 50) THEN "Legendary"
         ELSE IF ColorNear(r, 255) /\ ColorNear(g, 150) /\ ColorNear(bl, 50) THEN "Epic"
         ELSE IF ColorNear(r, 180) /\ ColorNear(g, 100) /\ ColorNear(bl, 255) THEN "Rare"
         ELSE IF ColorNear(r, 100) /\ ColorNear(g, 150) /\ ColorNear(bl, 255) THEN "Uncommon"
         ELSE "Common"

ReferenceRarityOrder == <<"Secret", "Legendary", "Epic", "Rare", "Uncommon", "Common">>

\* is_in_base_zone(pos): X > 350
ReferenceIsInBaseZone(pos) == pos[1] > Unit * 350

\* safety_margin of can_reach_before_tsunami
ReferenceSafetyMargin(speed_level) ==
    IF speed_level >= 10 THEN 3
    ELSE IF speed_level >= 8 THEN 4
    ELSE IF speed_level >= 5 THEN 5
    ELSE 6

\* can_reach_before_tsunami: total_ticks_needed < ticks_until_tsunami - safety_margin,
\* with TSUNAMI_SPEED = 50.0; both sides multiplied by Unit * 2*PLAYER_SPEED * 50 (> 0).
ReferenceCanReach(player_pos, brainrot_pos, deposit_pos, tsunami_x, speed_level) ==
    LET s2 == ReferencePlayerSpeedX2(speed_level)
        dist_to_brainrot == ReferenceDistance(player_pos, brainrot_pos)
        dist_brainrot_to_deposit == ReferenceDistance(brainrot_pos, deposit_pos)
        needed == 2 * 50 * (dist_to_brainrot + dist_brainrot_to_deposit) + Unit * s2 * 50
        until == s2 * (deposit_pos[1] - tsunami_x)
        margin == Unit * s2 * 50 * ReferenceSafetyMargin(speed_level)
    IN  needed < until - margin

\* find_furthest_reachable_brainrot: <<index, rarity>>, or <<>> for (None, None)
ReferenceFindFurthestReachable(player_pos, brainrots, tsunami_x, deposit_pos, speed_level) ==
    LET valid == SelectSeq(Indices(brainrots),
                           LAMBDA i : /\ brainrots[i].position[2] > Unit * (-100)
                                      /\ ~ReferenceIsInBaseZone(brainrots[i].position))
        reachable == SelectSeq(valid,
                               LAMBDA i : ReferenceCanReach(player_pos, brainrots[i].position,
                                                            deposit_pos, tsunami_x, speed_level))
        tiers == SelectSeq(ReferenceRarityOrder,
                           LAMBDA r : \E k \in 1..Len(reachable) :
                                         ReferenceGetRarity(brainrots[reachable[k]]) = r)
    IN  IF reachable = <<>>
        THEN IF valid # <<>>
             THEN LET nearest == MinFirst(valid, DistKeys(player_pos, brainrots, valid))
                  IN  <<nearest, ReferenceGetRarity(brainrots[nearest])>>
             ELSE <<>>
        ELSE IF tiers = <<>> THEN <<>>
        ELSE LET rarity == Head(tiers)
                 group == SelectSeq(reachable,
                                    LAMBDA i : ReferenceGetRarity(brainrots[i]) = rarity)
             IN  <<MaxFirst(group, DistKeys(player_pos, brainrots, group)), rarity>>

-----------------------------------------------------------------------------
(* Bounds of the model *)

MaxCand == 2          \* brainrots in a snapshot handed to a policy
MaxCandGambler == 3   \* brainrots in a snapshot handed to the gambler

-----------------------------------------------------------------------------
(* SpecPolicy: a targeting policy applied to one snapshot.                  *)

Brainrot(p, zone, color) == [position |-> p, zone |-> zone, color |-> color]

\* Brainrots a snapshot may hold: near and far ones, one raised above the
\* ground (3D and planar distance order it differently), one inside the base
\* zone, one fallen into the void; rarity from the zone tag or from the colour.
PolicyBrainrots ==
    { Brainrot(At(341, 1, 0), "Legendary", <<>>),
      Brainrot(At(339, 1, 0), "", <<255, 253, 51>>),          \* Legendary by colour
      Brainrot(At(340, 49, 0), "", <<>>),                      \* Common, raised by 12
      Brainrot(At(339, 1, 0), "Mythic", <<100, 150, 255>>),    \* unknown zone: Uncommon by colour
      Brainrot(At(350, 1, 0), "Common", <<255, 255, 255>>),    \* zone wins over colour
      Brainrot(At(100, 1, 0), "", <<255, 255, 255>>),          \* Secret, far away
      Brainrot(At(351, 1, 0), "Secret", <<>>),                 \* inside the base zone
      Brainrot(At(340, Unit * VOID_Y, 0), "Legendary", <<>>) } \* fallen

SeqsUpTo(S, n) == UNION {[1..k -> S] : k \in 0..n}

PolicyPositions == {At(356, 1, 0), At(355, 1, 0), At(345, 1, 0)}
PolicyTsunamiX == {Unit * TSUNAMI_ABSENT_X, Unit * TSUNAMI_INACTIVE_X,
                   Unit * (-300), 0, Unit * 400}
PolicySpeedLevels == {1, 10}
PolicyMoney == {0, AGGRESSIVE_THRESHOLD + 1}
PolicyModifiers == {100, 110}                \* safety_modifier 1.0 (Shroud), 1.1 (Ninja)

IsValid(b) == b.position[2] > Unit * VOID_Y /\ ~is_in_base_zone(b.position)

\* Every distance the policies add up for this snapshot is exact.
ExactDistances(s) ==
    \A i \in 1..Len(s.brainrots) :
        IsValid(s.brainrots[i]) =>
            /\ IsSquare(DistSq(s.pos, s.brainrots[i].position))
            /\ IsSquare(DistSq(s.brainrots[i].position, s.base_center))

\* AgentConfig defaults of the two fields only the farmer reads
DefaultVentureLimitX == Unit * 100
DefaultMinRarityPriority == 0

\* Snapshots handed to a TryhardStrategy (agents.py: Ninja, Shroud)
TryhardInputs ==
    { s \in [archetype : {"tryhard"},
             pos : PolicyPositions,
             brainrots : SeqsUpTo(PolicyBrainrots, MaxCand),
             tsunami_x : PolicyTsunamiX,
             base_center : {BaseCenter(DEFAULT_BASE_X, 0)},
             speed_level : PolicySpeedLevels,
             money : PolicyMoney,
             sm : PolicyModifiers,
             venture_limit_x : {DefaultVentureLimitX},
             min_rarity_priority : {DefaultMinRarityPriority}] : ExactDistances(s) }

\* Brainrots of a gambler's snapshot: two Legendary ones and a Common one out
\* in the field, a Secret one inside the base zone, a fallen Secret one.
GamblerBrainrots ==
    { Brainrot(At(341, 1, 0), "Legendary", <<>>),
      Brainrot(At(255, 1, 0), "Legendary", <<>>),
      Brainrot(At(265, 1, 0), "Common", <<>>),
      Brainrot(At(351, 1, 0), "Secret", <<>>),
      Brainrot(At(340, Unit * VOID_Y, 0), "", <<255, 255, 255>>) }

GamblerPositions == {At(300, 1, 0), At(261, 1, 0)}
GamblerTsunamiX == {Unit * TSUNAMI_ABSENT_X, 0, Unit * 400}
GamblerModifiers == {50, 65}                 \* safety_modifier 0.5 (xQc), 0.65 (HasanAbi)

\* Snapshots handed to a GamblerStrategy
GamblerInputs ==
    { s \in [archetype : {"gambler"},
             pos : GamblerPositions,
             brainrots : SeqsUpTo(GamblerBrainrots, MaxCandGambler),
             tsunami_x : GamblerTsunamiX,
             base_center : {BaseCenter(DEFAULT_BASE_X, 0)},
             speed_level : PolicySpeedLevels,
             money : {0},
             sm : GamblerModifiers,
             venture_limit_x : {DefaultVentureLimitX},
             min_rarity_priority : {DefaultMinRarityPriority}] : ExactDistances(s) }

\* agents.py: the farmers' safety_modifier, venture_limit_x, min_rarity_priority
FarmerConfigs ==
    { [sm |-> 200, venture_limit_x |-> Unit * 100, min_rarity_priority |-> 0],     \* Pokimane
      [sm |-> 180, venture_limit_x |-> Unit * (-50), min_rarity_priority |-> 1],   \* Ludwig
      [sm |-> 300, venture_limit_x |-> Unit * 200, min_rarity_priority |-> 0] }    \* Valkyrae

\* Brainrots of a farmer's snapshot: in the zone, on the base-zone boundary,
\* on Pokimane's venture limit, inside the base zone, fallen.
FarmerBrainrots ==
    { Brainrot(At(341, 1, 0), "Legendary", <<>>),
      Brainrot(At(350, 1, 0), "Common", <<255, 255, 255>>),
      Brainrot(At(100, 1, 0), "", <<255, 255, 255>>),
      Brainrot(At(351, 1, 0), "Secret", <<>>),
      Brainrot(At(340, Unit * VOID_Y, 0), "Legendary", <<>>) }

FarmerPositions == {At(375, 1, 0), At(345, 1, 0)}
FarmerTsunamiX == {Unit * TSUNAMI_ABSENT_X, 0, Unit * 400}

\* Snapshots handed to a FarmerStrategy
FarmerInputs ==
    { s \in [archetype : {"farmer"},
             pos : FarmerPositions,
             brainrots : SeqsUpTo(FarmerBrainrots, MaxCand),
             tsunami_x : FarmerTsunamiX,
             base_center : {BaseCenter(DEFAULT_BASE_X, 0)},
             speed_level : PolicySpeedLevels,
             money : {0},
             sm : {c.sm : c \in FarmerConfigs},
             venture_limit_x : {c.venture_limit_x : c \in FarmerConfigs},
             min_rarity_priority : {c.min_rarity_priority : c \in FarmerConfigs}] :
        /\ ExactDistances(s)
        /\ [sm |-> s.sm, venture_limit_x |-> s.venture_limit_x,
            min_rarity_priority |-> s.min_rarity_priority] \in FarmerConfigs }

PolicyInputs == TryhardInputs \cup GamblerInputs \cup FarmerInputs

NotCalled == [by |-> "", action |-> NoAction]

\* simulation.py: the strategy of the agent's archetype is the one called
TryhardCall ==
    /\ pout = NotCalled
    /\ psnap.archetype = "tryhard"
    /\ pout' = [by |-> "tryhard",
                action |-> TryhardFindTarget(psnap.pos, psnap.brainrots, psnap.tsunami_x,
                                             psnap.base_center, psnap.speed_level,
                                             psnap.money, psnap.sm)]
    /\ UNCHANGED <<psnap, stop, agentVars, tasks, logVars, caller>>

GamblerCall ==
    /\ pout = NotCalled
    /\ psnap.archetype = "gambler"
    /\ pout' = [by |-> "gambler",
                action |-> GamblerFindTarget(psnap.pos, psnap.brainrots, psnap.tsunami_x,
                                             psnap.base_center, psnap.speed_level,
                                             psnap.money, psnap.sm)]
    /\ UNCHANGED <<psnap, stop, agentVars, tasks, logVars, caller>>

FarmerCall ==
    /\ pout = NotCalled
    /\ psnap.archetype = "farmer"
    /\ pout' = [by |-> "farmer",
                action |-> FarmerFindTarget(psnap.pos, psnap.brainrots, psnap.tsunami_x,
                                            psnap.base_center, psnap.speed_level,
                                            psnap.money, psnap.sm, psnap.venture_limit_x,
                                            psnap.min_rarity_priority)]
    /\ UNCHANGED <<psnap, stop, agentVars, tasks, logVars, caller>>

-----------------------------------------------------------------------------
(* base.py : ChatLog *)

\* A variant of add on a deque without maxlen: nothing is ever dropped.
ChatLogAddUnbounded(msgs, m) == Append(msgs, m)

\* deque(maxlen=CHAT_MAXLEN).append: a full deque drops its leftmost item
ChatLogAdd(msgs, m) ==
    IF Len(msgs) >= CHAT_MAXLEN THEN Append(Tail(msgs), m) ELSE Append(msgs, m)

\* msgs[-n:] for n >= 0 (msgs[-0:] is msgs[0:], the whole list)
SliceLast(msgs, n) ==
    IF n = 0 \/ n >= Len(msgs) THEN msgs
    ELSE SubSeq(msgs, Len(msgs) - n + 1, Len(msgs))

\* return msgs[-n:] if len(msgs) >= n else msgs
ChatLogRecent(msgs, n) == IF Len(msgs) >= n THEN SliceLast(msgs, n) ELSE msgs

AgentName == "Shroud"

\* The k-th message appended to the log.  The text is opaque to the program;
\* the model labels it with its rank among the appended messages.
Message(k) == [streamer |-> AgentName, message |-> k]

MaxAdds == 27         \* appends to the log by the direct callers (SpecLog)
MaxRecentN == 6       \* largest n of a recent(n) call (SpecLog)

LogWriters == {"w1", "w2"}
LogReader == "r1"
CallerIdle == [pc |-> "idle", n |-> 0, msgs |-> <<>>, result |-> <<>>]

\* add, line 32: with self._lock
AddEnter(c) ==
    /\ caller[c].pc = "idle"
    /\ lock = "free"
    /\ nadds < MaxAdds
    /\ lock' = c
    /\ caller' = [caller EXCEPT ![c].pc = "add_locked"]
    /\ UNCHANGED <<log, nadds, stop, agentVars, tasks, policyVars>>

\* add, line 33: append, then the lock is released
AddAppend(c) ==
    /\ caller[c].pc = "add_locked"
    /\ log' = ChatLogAdd(log, Message(nadds + 1))
    /\ nadds' = nadds + 1
    /\ lock' = "free"
    /\ caller' = [caller EXCEPT ![c].pc = "idle"]
    /\ UNCHANGED <<stop, agentVars, tasks, policyVars>>

\* recent(n), line 36: with self._lock
RecentEnter(c, n) ==
    /\ caller[c].pc = "idle"
    /\ lock = "free"
    /\ lock' = c
    /\ caller' = [caller EXCEPT ![c] = [pc |-> "recent_locked", n |-> n,
                                        msgs |-> <<>>, result |-> <<>>]]
    /\ UNCHANGED <<log, nadds, stop, agentVars, tasks, policyVars>>

\* recent, line 37: msgs = list(self._messages), then the lock is released
RecentCopy(c) ==
    /\ caller[c].pc = "recent_locked"
    /\ caller' = [caller EXCEPT ![c].pc = "recent_copied", ![c].msgs = log]
    /\ lock' = "free"
    /\ UNCHANGED <<log, nadds, stop, agentVars, tasks, policyVars>>

\* recent, line 38: the slice, outside the lock
RecentReturn(c) ==
    /\ caller[c].pc = "recent_copied"
    /\ caller' = [caller EXCEPT ![c].pc = "recent_done",
                                ![c].result = ChatLogRecent(caller[c].msgs, caller[c].n)]
    /\ UNCHANGED <<logVars, stop, agentVars, tasks, policyVars>>

\* the caller drops the returned list
RecentDone(c) ==
    /\ caller[c].pc = "recent_done"
    /\ caller' = [caller EXCEPT ![c] = CallerIdle]
    /\ UNCHANGED <<logVars, stop, agentVars, tasks, policyVars>>

-----------------------------------------------------------------------------
(* base.py : send_input payloads, destroy_lowest_value *)

MoveTo(p) == [type |-> "MoveTo", position |-> p, index |-> -1]
Destroy(i) == [type |-> "Destroy", position |-> NoPos, index |-> i]
Deposit == [type |-> "Deposit", position |-> NoPos, index |-> -1]
BuySpeed == [type |-> "BuySpeed", position |-> NoPos, index |-> -1]
Collect == [type |-> "Collect", position |-> NoPos, index |-> -1]

\* A variant of destroy_lowest_value that removes the most valuable brainrot.
destroy_highest_value(placed_brainrots) ==
    IF placed_brainrots = <<>> THEN <<>>
    ELSE LET highest == MaxFirst(placed_brainrots, [k \in 1..Len(placed_brainrots) |-> placed_brainrots[k].value])
         IN  <<Destroy(highest.index)>>

\* destroy_lowest_value: the send_input calls it makes
destroy_lowest_value(placed_brainrots) ==
    IF placed_brainrots = <<>> THEN <<>>
    ELSE LET lowest == MinFirst(placed_brainrots, [k \in 1..Len(placed_brainrots) |-> placed_brainrots[k].value])
         IN  <<Destroy(lowest.index)>>

-----------------------------------------------------------------------------
(* base.py : run_agent.  One cycle = LoopEnter, Observe (observe(), the     *)
(* parsing, stuck detection and the choice of the rule: all local to the    *)
(* thread), then one step per send_input call, then the chat step.          *)

ChatInterval == 2     \* config.chat_interval
MaxTasks == 2         \* notification threads alive at a time
MaxTaskAdds == 1      \* messages the notification threads append
StuckSlack == 0       \* how far stuck_cycles may run past STUCK_THRESHOLD

MaxStuck == STUCK_THRESHOLD + StuckSlack
MaxChatCounter == ChatInterval + 1

upgrade_threshold == 1           \* TryhardStrategy.upgrade_threshold = 1.0
AgentModifier == 100             \* config.safety_modifier = 1.0

\* A variant of the hazard front that takes x = 0 when no wave is observed.
TsunamiXAtOrigin(waves) == IF waves = <<>> THEN 0 ELSE MinOf(waves)

\* tsunami_x = min([w['position'][0] for w in tsunami_waves]) if tsunami_waves else -500
TsunamiX(waves) == IF waves = <<>> THEN Unit * TSUNAMI_ABSENT_X ELSE MinOf(waves)

\* ---- snapshots observe() may return -------------------------------------
AtBase == BaseCenter(DEFAULT_BASE_X, 0)
Afield == At(345, 1, 0)
AgentPositions == {AtBase, SPEED_SHOP, Afield}
AgentCarry == {<<0, 1>>, <<1, 1>>, <<1, 2>>}           \* <<CarriedCount, CarryCapacity>>
AgentWallet == {<<0, 100, 1>>, <<100, 100, 1>>,        \* <<Money, NextSpeedCost, SpeedLevel>>
                <<100, 0, 1>>, <<100, 100, MAX_SPEED_LEVEL>>}
Placed(v0, v1) == <<[value |-> v0, index |-> 0], [value |-> v1, index |-> 1]>>
AgentPlaced == {<<>>, Placed(5, 3), Placed(3, 5), Placed(4, 4)}
AgentBaseMax == {2, 3}
AgentBrainrots == {<<>>, <<Brainrot(At(341, 1, 0), "Epic", <<>>)>>,
                   <<Brainrot(At(341, 1, 0), "Common", <<>>)>>}
AgentWaves == {<<>>, <<Unit * 100, 0>>}

\* Fields a cycle does not read for this CarriedCount/CarryCapacity keep their defaults.
AgentSnapshots ==
    { s \in [pos : AgentPositions, carry : AgentCarry, wallet : AgentWallet,
             placed : AgentPlaced, base_max : AgentBaseMax,
             brainrots : AgentBrainrots, waves : AgentWaves,
             base_center : {AtBase}] :
        /\ (s.carry[1] < s.carry[2] => s.placed = <<>> /\ s.base_max = 2)
        /\ (s.carry[1] >= s.carry[2] =>
               s.brainrots = <<>> /\ s.waves = <<>> /\ s.wallet = <<0, 100, 1>>)
        /\ ExactDistances(s) }

\* strategy.find_target(...) for the snapshot
StrategyFindTarget(s) ==
    TryhardFindTarget(s.pos, s.brainrots, TsunamiX(s.waves), s.base_center,
                      s.wallet[3], s.wallet[1], AgentModifier)

\* ---- the rules of a cycle ------------------------------------------------
\* line 204: last_position and distance(pos, last_position) < 1.0
StuckLow(pos, last) == last # NoPos /\ DistLess(pos, last, STUCK_EPSILON)

\* A variant of the override test that fires one cycle late (> for >=).
StuckOverrideLate(low, stuck) == low /\ stuck + 1 > STUCK_THRESHOLD

\* lines 205-206: the counter after this observation, and whether the override fires
StuckCount(low, stuck) == IF low THEN stuck + 1 ELSE 0
StuckOverride(low, stuck) == low /\ StuckCount(low, stuck) >= STUCK_THRESHOLD

\* line 217
IsFull(s) == s.carry[1] >= s.carry[2]

\* A variant of the upgrade test that does not look at what the player carries.
CanUpgradeCarrying(s) ==
    /\ s.wallet[2] > 0
    /\ s.wallet[1] >= s.wallet[2] * upgrade_threshold
    /\ s.wallet[3] < MAX_SPEED_LEVEL

\* line 230
CanUpgrade(s) ==
    /\ s.carry[1] = 0
    /\ s.wallet[2] > 0
    /\ s.wallet[1] >= s.wallet[2] * upgrade_threshold
    /\ s.wallet[3] < MAX_SPEED_LEVEL

\* A variant of the rule order that tests the deposit rule before the stuck override.
RuleDepositFirst(override, full, upgrade) ==
    IF full THEN "deposit"
    ELSE IF override THEN "stuck"
    ELSE IF upgrade THEN "upgrade"
    ELSE "policy"

\* The order of the if ... continue blocks of the loop body.
Rule(override, full, upgrade) ==
    IF override THEN "stuck"
    ELSE IF full THEN "deposit"
    ELSE IF upgrade THEN "upgrade"
    ELSE "policy"

\* lines 218-226: the send_input calls of the deposit rule
DepositSends(s) ==
    IF DistLess(s.pos, s.base_center, NEAR_RADIUS)
    THEN (IF Len(s.placed) >= s.base_max THEN destroy_lowest_value(s.placed) ELSE <<>>)
         \o <<Deposit>>
    ELSE <<MoveTo(s.base_center)>>

\* lines 231-235: the send_input call of the upgrade rule
UpgradeSends(s) ==
    IF DistMore(s.pos, SPEED_SHOP, NEAR_RADIUS) THEN <<MoveTo(SPEED_SHOP)>> ELSE <<BuySpeed>>

\* A variant that sends nothing when the policy returns None.
PolicySendsIdle(s, action) ==
    IF action.type = "MoveTo" THEN <<MoveTo(action.position)>>
    ELSE IF action.type = "Collect" THEN <<Collect>>
    ELSE <<>>

\* A variant that sends the player to the base when the policy says Wait.
PolicySendsOnWait(s, action) ==
    IF action.type = "MoveTo" THEN <<MoveTo(action.position)>>
    ELSE IF action.type = "Collect" THEN <<Collect>>
    ELSE <<MoveTo(s.base_center)>>

\* lines 250-260: the send_input call for the policy's action
PolicySends(s, action) ==
    IF action.type = "None" THEN <<MoveTo(s.base_center)>>
    ELSE IF action.type = "MoveTo" THEN <<MoveTo(action.position)>>
    ELSE IF action.type = "Collect" THEN <<Collect>>
    ELSE <<>>

\* What a cycle observed and did (kept until the next cycle starts).  The facts
\* are read off the snapshot as the specification words them, whatever rule the
\* loop then follows: low = displacement below epsilon, before = stuck_cycles when
\* the cycle began, full = carried >= capacity, near_base / at_cap / min_indices
\* describe the base of a full player, upgrade = the upgrade condition, near_shop
\* = within 20 of the shop; called = find_target was invoked, with waves the x
\* of the wave entities of the snapshot and tsunami_x the argument it was given;
\* after_wait = the cycle before this one ended with find_target having
\* returned Wait (and, once the snapshot is observed, the player has not moved
\* and find_target returns Wait for the snapshot again, whether or not the
\* cycle gets as far as calling it); counter = chat_counter when the cycle
\* started, kept for a policy cycle that collects a Secret, Legendary or Epic.
NoCycle == [rule |-> "", low |-> FALSE, before |-> 0, full |-> FALSE,
            near_base |-> FALSE, at_cap |-> FALSE, min_indices |-> {},
            upgrade |-> FALSE, near_shop |-> FALSE,
            called |-> FALSE, waves |-> <<>>, tsunami_x |-> 0,
            after_wait |-> FALSE, counter |-> 0,
            action |-> NoAction, failed |-> ""]

CycleFacts(s, last, stuck) ==
    LET low == last # NoPos /\ DistSq(s.pos, last) < Sq(Unit * STUCK_EPSILON)
        full == s.carry[1] >= s.carry[2]
        upgrade == /\ s.carry[1] = 0
                   /\ s.wallet[2] > 0
                   /\ s.wallet[1] >= s.wallet[2] * upgrade_threshold
                   /\ s.wallet[3] < MAX_SPEED_LEVEL
        near == DistSq(s.pos, s.base_center) < Sq(Unit * NEAR_RADIUS)
        cap == Len(s.placed) >= s.base_max
        lowest == {i \in 1..Len(s.placed) :
                     \A j \in 1..Len(s.placed) : s.placed[i].value <= s.placed[j].value}
    IN  [NoCycle EXCEPT
            !.low = low, !.before = stuck, !.full = full, !.upgrade = upgrade,
            !.near_base = full /\ near,
            !.at_cap = full /\ near /\ cap,
            !.min_indices = IF full /\ near /\ cap THEN {s.placed[i].index : i \in lowest}
                            ELSE {},
            !.near_shop = upgrade /\ DistSq(s.pos, SPEED_SHOP) <= Sq(Unit * NEAR_RADIUS),
            !.after_wait = /\ cyc.after_wait
                           /\ low
                           /\ StrategyFindTarget(s).type = "Wait"]

\* The rule that decides the cycle.
CycleRule(s, last, stuck) ==
    Rule(StuckOverride(StuckLow(s.pos, last), stuck), IsFull(s), CanUpgrade(s))

\* ---- the loop ------------------------------------------------------------
TasksLive == tasks.gen + tasks.post + tasks.locked

\* line 177, stop_event set: the loop ends
LoopExit ==
    /\ pc = "top"
    /\ stop
    /\ pc' = "done"
    /\ UNCHANGED <<stop, last_position, stuck_cycles, chat_counter, client, pending, sent,
                   cyc, tasks, logVars, caller, policyVars>>

\* A variant of the loop test that starts a cycle without looking at stop_event.
LoopEnterUnchecked ==
    /\ pc = "top"
    /\ pc' = "observe"
    /\ pending' = <<>>
    /\ sent' = <<>>
    /\ cyc' = [NoCycle EXCEPT !.after_wait = (cyc.action.type = "Wait" /\ cyc.failed = "")]
    /\ UNCHANGED <<stop, last_position, stuck_cycles, chat_counter, client,
                   tasks, logVars, caller, policyVars>>

\* A variant of the loop that joins its notification threads before the next cycle.
LoopEnterJoined ==
    /\ pc = "top"
    /\ ~stop
    /\ TasksLive = 0
    /\ pc' = "observe"
    /\ pending' = <<>>
    /\ sent' = <<>>
    /\ cyc' = [NoCycle EXCEPT !.after_wait = (cyc.action.type = "Wait" /\ cyc.failed = "")]
    /\ UNCHANGED <<stop, last_position, stuck_cycles, chat_counter, client,
                   tasks, logVars, caller, policyVars>>

\* line 177, stop_event not set: a new cycle starts
LoopEnter ==
    /\ pc = "top"
    /\ ~stop
    /\ pc' = "observe"
    /\ pending' = <<>>
    /\ sent' = <<>>
    /\ cyc' = [NoCycle EXCEPT !.after_wait = (cyc.action.type = "Wait" /\ cyc.failed = "")]
    /\ UNCHANGED <<stop, last_position, stuck_cycles, chat_counter, client,
                   tasks, logVars, caller, policyVars>>

\* line 183: observe() raises; lines 283-285: caught, the cycle is abandoned
ObserveFail ==
    /\ pc = "observe"
    /\ pc' = "top"
    /\ cyc' = [cyc EXCEPT !.failed = "observe"]
    /\ UNCHANGED <<stop, last_position, stuck_cycles, chat_counter, client, pending, sent,
                   tasks, logVars, caller, policyVars>>

\* lines 183-260 up to the first send_input call: observe() returns s, the stuck
\* counter and last_position are updated, the first rule that applies plans the calls
\* of the cycle (the stuck override leaves last_position alone: it continues at line 211)
Observe(s) ==
    LET rule == CycleRule(s, last_position, stuck_cycles)
        low == StuckLow(s.pos, last_position)
        action == IF rule = "policy" THEN StrategyFindTarget(s) ELSE NoAction
    IN
    /\ pc = "observe"
    /\ (low => stuck_cycles < MaxStuck)
    /\ (rule = "policy" => chat_counter < MaxChatCounter)
    /\ stuck_cycles' = StuckCount(low, stuck_cycles)
    /\ last_position' = IF rule = "stuck" THEN last_position ELSE s.pos
    /\ pending' = IF rule = "stuck" THEN <<MoveTo(s.base_center)>>
                  ELSE IF rule = "deposit" THEN DepositSends(s)
                  ELSE IF rule = "upgrade" THEN UpgradeSends(s)
                  ELSE PolicySends(s, action)
    /\ cyc' = [CycleFacts(s, last_position, stuck_cycles) EXCEPT
                  !.rule = rule, !.called = (rule = "policy"), !.action = action,
                  !.counter = IF /\ action.type = "Collect"
                                 /\ action.rarity \in {"Secret", "Legendary", "Epic"}
                              THEN chat_counter ELSE 0,
                  !.waves = IF rule = "policy" THEN s.waves ELSE <<>>,
                  !.tsunami_x = IF rule = "policy" THEN TsunamiX(s.waves) ELSE 0]
    /\ pc' = IF pending' = <<>> THEN "chat" ELSE "send"
    /\ UNCHANGED <<stop, chat_counter, client, sent, tasks, logVars, caller, policyVars>>

\* line 240: find_target raises (a malformed entity); caught at lines 283-285
PolicyFail(s) ==
    LET rule == CycleRule(s, last_position, stuck_cycles)
        low == StuckLow(s.pos, last_position)
    IN
    /\ pc = "observe"
    /\ rule = "policy"
    /\ (low => stuck_cycles < MaxStuck)
    /\ stuck_cycles' = StuckCount(low, stuck_cycles)
    /\ last_position' = s.pos
    /\ cyc' = [CycleFacts(s, last_position, stuck_cycles) EXCEPT
                  !.rule = rule, !.called = TRUE, !.failed = "policy",
                  !.waves = s.waves, !.tsunami_x = TsunamiX(s.waves)]
    /\ pc' = "top"
    /\ UNCHANGED <<stop, chat_counter, client, pending, sent, tasks, logVars, caller, policyVars>>

\* A variant of the statements after the last send_input that leaves the stuck
\* counter alone after the override.
AfterSendsStuckKept(c, stuck, counter) ==
    [stuck |-> stuck,
     counter |-> IF /\ c.rule = "policy"
                    /\ c.action.type = "Collect"
                    /\ client
                    /\ c.action.rarity \in {"Secret", "Legendary", "Epic"}
                 THEN 0 ELSE counter,
     pc |-> IF c.rule = "policy" THEN "chat" ELSE "top"]

\* The statements that follow the last send_input of a cycle:
\* line 209 (stuck_cycles = 0) and lines 257-258 (chat_counter = 0 on a valuable Collect).
AfterSends(c, stuck, counter) ==
    [stuck |-> IF c.rule = "stuck" THEN 0 ELSE stuck,
     counter |-> IF /\ c.rule = "policy"
                    /\ c.action.type = "Collect"
                    /\ client
                    /\ c.action.rarity \in {"Secret", "Legendary", "Epic"}
                 THEN 0 ELSE counter,
     pc |-> IF c.rule = "policy" THEN "chat" ELSE "top"]

\* a send_input call returns
SendOk ==
    /\ pc = "send"
    /\ pending # <<>>
    /\ sent' = Append(sent, Head(pending))
    /\ pending' = Tail(pending)
    /\ IF Tail(pending) # <<>>
       THEN UNCHANGED <<pc, stuck_cycles, chat_counter>>
       ELSE LET a == AfterSends(cyc, stuck_cycles, chat_counter) IN
            /\ pc' = a.pc
            /\ stuck_cycles' = a.stuck
            /\ chat_counter' = a.counter
    /\ UNCHANGED <<stop, last_position, client, cyc, tasks, logVars, caller, policyVars>>

\* A variant in which an exception of send_input leaves the loop.
SendFailFatal ==
    /\ pc = "send"
    /\ pending # <<>>
    /\ pending' = <<>>
    /\ cyc' = [cyc EXCEPT !.failed = "send"]
    /\ pc' = "done"
    /\ UNCHANGED <<stop, last_position, stuck_cycles, chat_counter, client, sent,
                   tasks, logVars, caller, policyVars>>

\* a send_input call raises; lines 283-285: caught, the rest of the cycle is abandoned
SendFail ==
    /\ pc = "send"
    /\ pending # <<>>
    /\ pending' = <<>>
    /\ cyc' = [cyc EXCEPT !.failed = "send"]
    /\ pc' = "top"
    /\ UNCHANGED <<stop, last_position, stuck_cycles, chat_counter, client, sent,
                   tasks, logVars, caller, policyVars>>

\* lines 263-266 when no chat is requested (chat disabled, counter below the
\* interval, or random.random() >= 0.75)
ChatSkip ==
    /\ pc = "chat"
    /\ chat_counter' = chat_counter + 1
    /\ pc' = "top"
    /\ UNCHANGED <<stop, last_position, stuck_cycles, client, pending, sent, cyc,
                   tasks, logVars, caller, policyVars>>

\* lines 263-267: a chat is requested
ChatStart ==
    /\ pc = "chat"
    /\ client
    /\ chat_counter + 1 >= ChatInterval
    /\ TasksLive < MaxTasks
    /\ chat_counter' = 0
    /\ pc' = "recent"
    /\ UNCHANGED <<stop, last_position, stuck_cycles, client, pending, sent, cyc,
                   tasks, logVars, caller, policyVars>>

\* A variant of recent() that reads the log without waiting for the lock.
AgentRecentEnterNoWait ==
    /\ pc = "recent"
    /\ lock' = "agent"
    /\ pc' = "recent_locked"
    /\ UNCHANGED <<stop, last_position, stuck_cycles, chat_counter, client, pending, sent,
                   cyc, tasks, log, nadds, caller, policyVars>>

\* line 269: CHAT_LOG.recent(5) takes the lock
AgentRecentEnter ==
    /\ pc = "recent"
    /\ lock = "free"
    /\ lock' = "agent"
    /\ pc' = "recent_locked"
    /\ UNCHANGED <<stop, last_position, stuck_cycles, chat_counter, client, pending, sent,
                   cyc, tasks, log, nadds, caller, policyVars>>

\* lines 269-279: the copy under the lock, the lock released, and generate_chat
\* starting the notification thread (lines 134-135); the loop does not wait for it.
\* recent_chat only enters the prompt, whose answer is opaque: it is not kept.
AgentRecentSpawn ==
    /\ pc = "recent_locked"
    /\ lock' = "free"
    /\ tasks' = [tasks EXCEPT !.gen = @ + 1]
    /\ pc' = "top"
    /\ UNCHANGED <<stop, last_position, stuck_cycles, chat_counter, client, pending, sent,
                   cyc, log, nadds, caller, policyVars>>

AgentNext ==
    \/ LoopExit
    \/ LoopEnter
    \/ ObserveFail
    \/ \E s \in AgentSnapshots : Observe(s)
    \/ \E s \in AgentSnapshots : PolicyFail(s)
    \/ SendOk
    \/ SendFail
    \/ ChatSkip
    \/ ChatStart
    \/ AgentRecentEnter
    \/ AgentRecentSpawn

\* simulation.py line 224: stop_event.set()
SetStop ==
    /\ ~stop
    /\ stop' = TRUE
    /\ UNCHANGED <<agentVars, tasks, logVars, caller, policyVars>>

-----------------------------------------------------------------------------
(* base.py : generate_chat._do_chat, one thread per notification.  The      *)
(* threads are anonymous: tasks counts the threads at each stage.           *)

NoTasks == [gen |-> 0, post |-> 0, locked |-> 0]

\* lines 111-116: the completion call returns a message
TaskGenerateOk ==
    /\ tasks.gen > 0
    /\ tasks' = [tasks EXCEPT !.gen = @ - 1, !.post = @ + 1]
    /\ UNCHANGED <<stop, agentVars, logVars, caller, policyVars>>

\* lines 111-116 raise (network error, malformed response); lines 131-132 swallow it
TaskGenerateFail ==
    /\ tasks.gen > 0
    /\ tasks' = [tasks EXCEPT !.gen = @ - 1]
    /\ UNCHANGED <<stop, agentVars, logVars, caller, policyVars>>

\* lines 123-129: requests.post returns and CHAT_LOG.add takes the lock (a thread
\* whose post has returned while the lock is held waits here for the lock)
TaskPostOk ==
    /\ tasks.post > 0
    /\ lock = "free"
    /\ nadds < MaxTaskAdds
    /\ lock' = "task"
    /\ tasks' = [tasks EXCEPT !.post = @ - 1, !.locked = @ + 1]
    /\ UNCHANGED <<stop, agentVars, log, nadds, caller, policyVars>>

\* A variant that has logged the message before the post that raises.
TaskPostFailLogged ==
    /\ tasks.post > 0
    /\ lock = "free"
    /\ nadds < MaxTaskAdds
    /\ log' = ChatLogAdd(log, Message(nadds + 1))
    /\ nadds' = nadds + 1
    /\ tasks' = [tasks EXCEPT !.post = @ - 1]
    /\ UNCHANGED <<stop, agentVars, lock, caller, policyVars>>

\* lines 123-128 raise; lines 131-132 swallow it
TaskPostFail ==
    /\ tasks.post > 0
    /\ tasks' = [tasks EXCEPT !.post = @ - 1]
    /\ UNCHANGED <<stop, agentVars, logVars, caller, policyVars>>

\* line 129, CHAT_LOG.add: the append, the lock released; the thread ends
TaskAddAppend ==
    /\ tasks.locked > 0
    /\ log' = ChatLogAdd(log, Message(nadds + 1))
    /\ nadds' = nadds + 1
    /\ lock' = "free"
    /\ tasks' = [tasks EXCEPT !.locked = @ - 1]
    /\ UNCHANGED <<stop, agentVars, caller, policyVars>>

TaskNext ==
    \/ TaskGenerateOk
    \/ TaskGenerateFail
    \/ TaskPostOk
    \/ TaskPostFail
    \/ TaskAddAppend

-----------------------------------------------------------------------------
(* Specifications *)

NoSnapshot == [archetype |-> "", pos |-> NoPos, brainrots |-> <<>>, tsunami_x |-> 0,
               base_center |-> NoPos, speed_level |-> 0, money |-> 0, sm |-> 0,
               venture_limit_x |-> 0, min_rarity_priority |-> 0]

\* The state after run_agent's set-up (lines 171-175), no notification running.
Init ==
    /\ stop = FALSE
    /\ pc = "top"
    /\ last_position = NoPos
    /\ stuck_cycles = 0
    /\ chat_counter = 0
    /\ client \in BOOLEAN
    /\ pending = <<>>
    /\ sent = <<>>
    /\ cyc = NoCycle
    /\ tasks = NoTasks
    /\ log = <<>>
    /\ lock = "free"
    /\ nadds = 0
    /\ caller = [c \in LogWriters \cup {LogReader} |-> CallerIdle]
    /\ psnap = NoSnapshot
    /\ pout = NotCalled

Next == AgentNext \/ SetStop \/ TaskNext

\* One agent thread, its notification threads and the main thread's stop signal.
Spec == Init /\ [][Next]_vars

\* The agent thread takes a step: a step of Next changes pc exactly when it is a
\* step of AgentNext, and AgentNext is enabled exactly when the thread has not
\* left the loop and does not wait for the log's lock (AgentStepEnabled).
AgentPcs == {"top", "observe", "send", "chat", "recent", "recent_locked", "done"}

AgentStepEnabled == pc # "done" /\ (pc = "recent" => lock = "free")

AgentStep == AgentStepEnabled /\ pc' \in AgentPcs \ {pc}

\* The scheduler runs a runnable agent thread and a thread holding the log's lock;
\* observe() and send_input() return or raise (their requests carry a timeout).
\* Nothing is assumed about the network calls of a notification thread.
FairSpec == Spec /\ WF_pc(AgentStep) /\ WF_vars(TaskAddAppend)

\* ChatLog called directly by two adding threads and a reading thread.
InitLog ==
    /\ Init
    /\ client = FALSE
    /\ pc = "top"

NextLog ==
    \/ \E c \in LogWriters : AddEnter(c)
    \/ \E c \in LogWriters : AddAppend(c)
    \/ \E n \in 0..MaxRecentN : RecentEnter(LogReader, n)
    \/ RecentCopy(LogReader)
    \/ RecentReturn(LogReader)
    \/ RecentDone(LogReader)

SpecLog == InitLog /\ [][NextLog]_vars

\* A policy applied once to a snapshot drawn from PolicyInputs.
InitPolicy ==
    /\ stop = FALSE
    /\ pc = "top"
    /\ last_position = NoPos
    /\ stuck_cycles = 0
    /\ chat_counter = 0
    /\ client = FALSE
    /\ pending = <<>>
    /\ sent = <<>>
    /\ cyc = NoCycle
    /\ tasks = NoTasks
    /\ log = <<>>
    /\ lock = "free"
    /\ nadds = 0
    /\ caller = [c \in LogWriters \cup {LogReader} |-> CallerIdle]
    /\ psnap \in PolicyInputs
    /\ pout = NotCalled

NextPolicy == TryhardCall \/ GamblerCall \/ FarmerCall

SpecPolicy == InitPolicy /\ [][NextPolicy]_vars

-----------------------------------------------------------------------------
(* Properties of TryhardStrategy.find_target (specification SpecPolicy)     *)

\* The candidates of the snapshot that are alive, outside the base zone and
\* pass can_reach_before_tsunami.
PolicyReachableSet ==
    {i \in 1..Len(psnap.brainrots) :
        /\ IsValid(psnap.brainrots[i])
        /\ TryhardCanReach(psnap.pos, psnap.brainrots[i].position, psnap.base_center,
                           psnap.tsunami_x, psnap.speed_level, psnap.sm)}

PolicyTier(i) == rarity_priority(get_rarity(psnap.brainrots[i]))
PolicyDistSq(i) == DistSq(psnap.pos, psnap.brainrots[i].position)

\* C9: whenever at least one alive, outside-base candidate is reachable,
\* TryhardStrategy.find_target returns a MoveTo or Collect whose target is
\* reachable, lies in the highest-priority rarity tier that has a reachable
\* member, and is at the greatest 3D distance from the player among the
\* reachable members of that tier -- whatever the money, the hazard position and
\* the player position.
C9_FurthestOfBestReachableTier ==
    (pout.by = "tryhard" /\ PolicyReachableSet # {}) =>
        LET t == pout.action.target IN
        /\ pout.action.type \in {"MoveTo", "Collect"}
        /\ t \in PolicyReachableSet
        /\ \A j \in PolicyReachableSet : PolicyTier(t) <= PolicyTier(j)
        /\ \A j \in PolicyReachableSet :
               PolicyTier(j) = PolicyTier(t) => PolicyDistSq(j) <= PolicyDistSq(t)

\* Two reachable candidates of one tier at different distances, the wave
\* active, the money above the aggressive threshold: the farther one is targeted.
C9_Witness ==
    /\ pout.by = "tryhard"
    /\ psnap.money >= AGGRESSIVE_THRESHOLD
    /\ psnap.tsunami_x > Unit * TSUNAMI_INACTIVE_X
    /\ \E i, j \in PolicyReachableSet :
          /\ PolicyTier(i) = PolicyTier(j)
          /\ PolicyDistSq(i) < PolicyDistSq(j)
          /\ pout.action.target = j

\* C10: TryhardStrategy.find_target returns Wait exactly when the hazard is
\* active (tsunami_x > -400), no valid candidate is reachable and the player is
\* within 20 (3D) of the base centre; valid unreachable candidates do not
\* prevent the Wait, and in every other situation the result is not Wait.
C10_WaitExactlyWhen ==
    pout.by = "tryhard" =>
        ( pout.action.type = "Wait"
          <=> /\ psnap.tsunami_x > Unit * TSUNAMI_INACTIVE_X
              /\ PolicyReachableSet = {}
              /\ DistSq(psnap.pos, psnap.base_center) < Sq(Unit * NEAR_RADIUS) )

\* Wait is returned although a valid candidate (an unreachable one) exists.
C10_Witness ==
    /\ pout.by = "tryhard"
    /\ pout.action.type = "Wait"
    /\ \E i \in 1..Len(psnap.brainrots) : IsValid(psnap.brainrots[i])

-----------------------------------------------------------------------------
(* Properties of the three policies (specification SpecPolicy), continued   *)

\* The candidates of the snapshot that are alive and outside the base zone.
PolicyValidSet == {i \in 1..Len(psnap.brainrots) : IsValid(psnap.brainrots[i])}

\* The safe window of TryhardStrategy: money above the aggressive threshold,
\* the wave beyond the base centre, the player within 20 of the base centre.
SafeWindow ==
    /\ psnap.money > AGGRESSIVE_THRESHOLD
    /\ psnap.tsunami_x > psnap.base_center[1]
    /\ DistSq(psnap.pos, psnap.base_center) < Sq(Unit * NEAR_RADIUS)

\* C11: in the safe window (money above 2500, the wave past the base, the
\* player near the base) TryhardStrategy.find_target targets the valid
\* candidate nearest to the player, whatever its rarity and reachability.
C11_SafeWindowNearest ==
    (pout.by = "tryhard" /\ SafeWindow /\ PolicyValidSet # {}) =>
        /\ pout.action.type \in {"MoveTo", "Collect"}
        /\ pout.action.target \in PolicyValidSet
        /\ \A j \in PolicyValidSet : PolicyDistSq(pout.action.target) <= PolicyDistSq(j)

\* The least rarity index (0 = Secret) among the valid candidates.
PolicyBestTier ==
    CHOOSE p \in {PolicyTier(i) : i \in PolicyValidSet} :
        \A i \in PolicyValidSet : p <= PolicyTier(i)

\* The first of the nearest candidates of a non-empty set S of indices.
PolicyNearestIn(S) ==
    CHOOSE i \in S : \A j \in S : \/ PolicyDistSq(i) < PolicyDistSq(j)
                                  \/ (PolicyDistSq(i) = PolicyDistSq(j) /\ i <= j)

PolicyBestSet == {i \in PolicyValidSet : PolicyTier(i) = PolicyBestTier}

\* is_safe_enough of the snapshot's gambler for candidate i
GamblerSafeFor(i) ==
    GamblerIsSafeEnough(psnap.brainrots[i].position, psnap.base_center,
                        psnap.tsunami_x, psnap.speed_level, psnap.sm)

\* C12 as stated: whenever some valid candidate of the highest rarity tier
\* present passes is_safe_enough, GamblerStrategy.find_target selects a target
\* of that tier and not of a lower one.
C12_SafeBestTierSelected ==
    (pout.by = "gambler" /\ \E i \in PolicyBestSet : GamblerSafeFor(i)) =>
        /\ pout.action.type \in {"MoveTo", "Collect"}
        /\ pout.action.target \in PolicyBestSet

\* C12 amended: whenever the member of the highest rarity tier present that is
\* nearest to the player (the first of them in snapshot order when several are
\* equally near) passes is_safe_enough, GamblerStrategy.find_target selects that
\* member, so a target of the highest tier and not of a lower one.
C12_NearestBestTierSelected ==
    (pout.by = "gambler" /\ PolicyValidSet # {}
     /\ GamblerSafeFor(PolicyNearestIn(PolicyBestSet))) =>
        /\ pout.action.type \in {"MoveTo", "Collect"}
        /\ pout.action.target = PolicyNearestIn(PolicyBestSet)

\* The nearest member of the highest tier is safe and is selected although a
\* valid candidate of a lower tier is nearer to the player and another member
\* of the highest tier fails the check.
C12_Witness ==
    /\ pout.by = "gambler"
    /\ PolicyValidSet # {}
    /\ GamblerSafeFor(PolicyNearestIn(PolicyBestSet))
    /\ pout.action.target = PolicyNearestIn(PolicyBestSet)
    /\ \E j \in PolicyValidSet \ PolicyBestSet :
          PolicyDistSq(j) < PolicyDistSq(pout.action.target)
    /\ \E k \in PolicyBestSet : ~GamblerSafeFor(k)

\* C13: GamblerStrategy.find_target never returns Wait; whenever a valid
\* candidate exists it returns a MoveTo or Collect on a valid candidate,
\* wherever the hazard is; and when both the nearest member of the highest tier
\* and the nearest candidate of any rarity fail is_safe_enough, the target is
\* the nearest member of the highest tier present.
C13_NeverWaits ==
    pout.by = "gambler" =>
        /\ pout.action.type # "Wait"
        /\ PolicyValidSet # {} =>
              /\ pout.action.type \in {"MoveTo", "Collect"}
              /\ pout.action.target \in PolicyValidSet
              /\ ( /\ ~GamblerSafeFor(PolicyNearestIn(PolicyBestSet))
                   /\ ~GamblerSafeFor(PolicyNearestIn(PolicyValidSet)) )
                 => pout.action.target = PolicyNearestIn(PolicyBestSet)

\* The wave is past the base, both checks fail, a lower-tier candidate is
\* nearer, and the nearest member of the highest tier is targeted all the same.
C13_Witness ==
    /\ pout.by = "gambler"
    /\ psnap.tsunami_x > psnap.base_center[1]
    /\ PolicyValidSet # {}
    /\ ~GamblerSafeFor(PolicyNearestIn(PolicyBestSet))
    /\ ~GamblerSafeFor(PolicyNearestIn(PolicyValidSet))
    /\ PolicyNearestIn(PolicyValidSet) \notin PolicyBestSet
    /\ pout.action.type = "MoveTo"
    /\ pout.action.target = PolicyNearestIn(PolicyBestSet)

\* The candidates that pass the farmer's filters: alive, outside the base
\* zone, beyond the venture limit, of a rarity index at least the minimum.
FarmerFilteredSet ==
    {i \in PolicyValidSet :
        /\ psnap.brainrots[i].position[1] > psnap.venture_limit_x
        /\ (psnap.min_rarity_priority > 0 => PolicyTier(i) >= psnap.min_rarity_priority)}

\* is_safe of the snapshot's farmer for candidate i
FarmerSafeFor(i) ==
    FarmerIsSafe(psnap.brainrots[i].position, psnap.base_center,
                 psnap.tsunami_x, psnap.speed_level, psnap.sm)

FarmerSafeSet == {i \in FarmerFilteredSet : FarmerSafeFor(i)}

C15_PoolChoice ==
    (pout.by = "farmer" /\ FarmerFilteredSet # {}) =>
        LET t == pout.action.target IN
        /\ pout.action.type \in {"MoveTo", "Collect"}
        /\ FarmerSafeSet # {} =>
              /\ t \in FarmerSafeSet
              /\ \A j \in FarmerSafeSet : PolicyDistSq(t) <= PolicyDistSq(j)
        /\ FarmerSafeSet = {} =>
              /\ t \in FarmerFilteredSet
              /\ \A j \in FarmerFilteredSet : PolicyDistSq(t) <= PolicyDistSq(j)

\* The target is safe and an unsafe filtered candidate is nearer to the player.
C15_Witness ==
    /\ pout.by = "farmer"
    /\ pout.action.target \in FarmerSafeSet
    /\ \E j \in FarmerFilteredSet \ FarmerSafeSet :
          PolicyDistSq(j) < PolicyDistSq(pout.action.target)

\* The safety modifiers of agents.py (in 1/ModScale), and 0 for no margin.
SafetyModifiers == {0, 50, 65, 110, 180, 300}

\* The modifiers under which each check accepts candidate i of the snapshot.
TryhardAccepting(i) ==
    {m \in SafetyModifiers :
        TryhardCanReach(psnap.pos, psnap.brainrots[i].position, psnap.base_center,
                        psnap.tsunami_x, psnap.speed_level, m)}
GamblerAccepting(i) ==
    {m \in SafetyModifiers :
        GamblerIsSafeEnough(psnap.brainrots[i].position, psnap.base_center,
                            psnap.tsunami_x, psnap.speed_level, m)}
FarmerAccepting(i) ==
    {m \in SafetyModifiers :
        FarmerIsSafe(psnap.brainrots[i].position, psnap.base_center,
                     psnap.tsunami_x, psnap.speed_level, m)}

C18_PlayerSpeed ==
    \A l \in 1..MAX_SPEED_LEVEL \cup {psnap.speed_level} :
        /\ TryhardPlayerSpeedX2(l) = 32 + 11 * (l - 1)
        /\ GamblerPlayerSpeedX2(l) = 32 + 11 * (l - 1)
        /\ FarmerPlayerSpeedX2(l) = 32 + 11 * (l - 1)
        /\ ReferencePlayerSpeedX2(l) = 32 + 11 * (l - 1)
        /\ l < MAX_SPEED_LEVEL =>
              /\ TryhardPlayerSpeedX2(l) < TryhardPlayerSpeedX2(l + 1)
              /\ GamblerPlayerSpeedX2(l) < GamblerPlayerSpeedX2(l + 1)
              /\ FarmerPlayerSpeedX2(l) < FarmerPlayerSpeedX2(l + 1)
              /\ ReferencePlayerSpeedX2(l) < ReferencePlayerSpeedX2(l + 1)

\* The gambler was called at speed level 10 (speed 65.5) and its check accepts
\* a candidate that it rejects at level 1 (speed 16).
C18_Witness ==
    /\ pout.by = "gambler"
    /\ psnap.speed_level = MAX_SPEED_LEVEL
    /\ GamblerPlayerSpeedX2(psnap.speed_level) = 131
    /\ \E i \in PolicyValidSet :
          /\ GamblerSafeFor(i)
          /\ ~GamblerIsSafeEnough(psnap.brainrots[i].position, psnap.base_center,
                                  psnap.tsunami_x, 1, psnap.sm)

\* The cost model of the safety section for candidate i of the snapshot, with
\* the margin in 1/ModScale ticks; both sides of each comparison multiplied by
\* Unit * 2*speed * TSUNAMI_SPEED * ModScale.
CostSpeedX2 == 2 * PLAYER_SPEED_BASE + (psnap.speed_level - 1) * PLAYER_SPEED_PER_LEVEL_X2
CostToCollect(i) ==
    2 * TSUNAMI_SPEED * ModScale * Sqrt(DistSq(psnap.pos, psnap.brainrots[i].position))
    + Unit * CostSpeedX2 * TSUNAMI_SPEED * ModScale
CostToReturn(i) ==
    2 * TSUNAMI_SPEED * ModScale * Sqrt(DistSq(psnap.brainrots[i].position, psnap.base_center))
CostUntilHazard(margin) ==
    CostSpeedX2 * ModScale * (psnap.base_center[1] - psnap.tsunami_x)
    - Unit * CostSpeedX2 * TSUNAMI_SPEED * margin

\* The margin of the archetype whose policy was called: safety_modifier for
\* the gambler, safety_modifier * 3 for the farmer.
CostMargin == IF pout.by = "farmer" THEN 3 * psnap.sm ELSE psnap.sm

\* The check of the policy that was called, for candidate i.
SafetyCheckFor(i) == IF pout.by = "farmer" THEN FarmerSafeFor(i) ELSE GamblerSafeFor(i)

C22_UncommonOrBetter ==
    (pout.by = "farmer" /\ psnap.min_rarity_priority = 1
     /\ pout.action.type \in {"MoveTo", "Collect"}) =>
        /\ get_rarity(psnap.brainrots[pout.action.target]) # "Common"
        /\ pout.action.rarity \in {"Secret", "Legendary", "Epic", "Rare", "Uncommon"}

\* C26: for each of the three policies the action built for the chosen
\* candidate is Collect exactly when the 3D distance from the player to it is
\* below 5, otherwise MoveTo with the candidate's position; and every MoveTo
\* position is that of an alive candidate outside the base zone.
C26_MoveOrCollect ==
    (pout.by # "" /\ pout.action.type \in {"MoveTo", "Collect"}) =>
        LET t == pout.action.target
            b == psnap.brainrots[t]
            near == DistSq(psnap.pos, b.position) < Sq(Unit * 5)
        IN  /\ t \in 1..Len(psnap.brainrots)
            /\ pout.action.type = "Collect" <=> near
            /\ pout.action.type = "MoveTo" =>
                  /\ pout.action.position = b.position
                  /\ \E j \in 1..Len(psnap.brainrots) :
                        /\ psnap.brainrots[j].position = pout.action.position
                        /\ psnap.brainrots[j].position[2] > Unit * (-100)
                        /\ psnap.brainrots[j].position[1] <= Unit * 350

\* The farmer's target is at distance 5 exactly and the action is a MoveTo.
C26_Witness ==
    /\ pout.by = "farmer"
    /\ pout.action.type = "MoveTo"
    /\ PolicyDistSq(pout.action.target) = Sq(Unit * COLLECTION_RANGE)

\* C25: when no candidate is reachable, the Wait rule does not apply and a
\* valid candidate exists, TryhardStrategy.find_target selects the valid
\* candidate nearest to the player, and the action (MoveTo or Collect) carries
\* the risky tag in its event field.
C25_RiskyFallbackTagged ==
    ( /\ pout.by = "tryhard"
      /\ PolicyReachableSet = {}
      /\ pout.action.type # "Wait"
      /\ PolicyValidSet # {} ) =>
        /\ pout.action.type \in {"MoveTo", "Collect"}
        /\ pout.action.target \in PolicyValidSet
        /\ \A j \in PolicyValidSet : PolicyDistSq(pout.action.target) <= PolicyDistSq(j)
        /\ \E k \in 1..Len(pout.action.event) :
              pout.action.event[k] = "risky nearest fallback"

PolicyColourOnly == \A i \in 1..Len(psnap.brainrots) : psnap.brainrots[i].zone = ""

\* find_furthest_reachable_brainrot of play_tsunami.py for the snapshot
ReferenceTarget ==
    ReferenceFindFurthestReachable(psnap.pos, psnap.brainrots, psnap.tsunami_x,
                                   psnap.base_center, psnap.speed_level)

\* C32: for the positions of a snapshot handed to the tryhard strategy, at the
\* speed levels where the safety margin changes (1, 5, 8, 10) and at the
\* snapshot's own, can_reach_before_tsunami of a strategy with safety_modifier 1.0
\* accepts a valid brainrot exactly when can_reach_before_tsunami of
\* play_tsunami.py does; and when the modifier is 1.0, no brainrot has a Zone
\* attribute and find_target returns neither Wait nor the aggressive branch's
\* action, the action is built for the brainrot, with the rarity, that
\* find_furthest_reachable_brainrot returns (None when it returns none).
C32_RefinesReference ==
    pout.by = "tryhard" =>
        /\ \A i \in 1..Len(psnap.brainrots) : \A l \in {1, 5, 8, 10, psnap.speed_level} :
              IsValid(psnap.brainrots[i]) =>
                 (TryhardCanReach(psnap.pos, psnap.brainrots[i].position, psnap.base_center,
                                  psnap.tsunami_x, l, ModScale)
                  <=> ReferenceCanReach(psnap.pos, psnap.brainrots[i].position,
                                        psnap.base_center, psnap.tsunami_x, l))
        /\ ( /\ psnap.sm = ModScale
             /\ PolicyColourOnly
             /\ pout.action.type # "Wait"
             /\ pout.action.event # <<"aggressive mode - nearest valuable">> ) =>
                IF ReferenceTarget = <<>>
                THEN pout.action = NoAction
                ELSE /\ pout.action.type \in {"MoveTo", "Collect"}
                     /\ pout.action.target = ReferenceTarget[1]
                     /\ pout.action.rarity = ReferenceTarget[2]

\* Two brainrots without a Zone attribute, of different rarities by colour, the
\* rarer one the nearer and both within reach: the strategy moves to the rarer
\* one, which the reference returns.
C32_Witness ==
    /\ pout.by = "tryhard"
    /\ psnap.sm = ModScale
    /\ PolicyColourOnly
    /\ Len(psnap.brainrots) = 2
    /\ ReferenceTarget # <<>>
    /\ ReferenceCanReach(psnap.pos, psnap.brainrots[ReferenceTarget[1]].position,
                         psnap.base_center, psnap.tsunami_x, psnap.speed_level)
    /\ \E j \in 1..2 :
          /\ j # ReferenceTarget[1]
          /\ IsValid(psnap.brainrots[j])
          /\ ReferenceCanReach(psnap.pos, psnap.brainrots[j].position,
                               psnap.base_center, psnap.tsunami_x, psnap.speed_level)
          /\ rarity_priority(ReferenceGetRarity(psnap.brainrots[j]))
                > rarity_priority(ReferenceTarget[2])
          /\ DistSq(psnap.pos, psnap.brainrots[j].position)
                > DistSq(psnap.pos, psnap.brainrots[ReferenceTarget[1]].position)
    /\ pout.action.type = "MoveTo"
    /\ pout.action.target = ReferenceTarget[1]

-----------------------------------------------------------------------------
(* Properties of ChatLog (specification SpecLog)                            *)

\* The last min(k, CHAT_MAXLEN) of the first k messages appended, oldest first.
LogWindow(k) ==
    LET len == IF k < CHAT_MAXLEN THEN k ELSE CHAT_MAXLEN
    IN  [j \in 1..len |-> Message(k - len + j)]

\* C8: under every interleaving of add and recent calls the log never holds
\* more than 25 messages; it holds the most recently appended ones in the order
\* of their appends (so an add on a full log has dropped exactly the oldest);
\* and recent(n), n >= 1, returns the last min(n, length) messages, in order,
\* of the log as it was when the call copied it.
C8_BoundedOldestEvicted ==
    /\ Len(log) <= CHAT_MAXLEN
    /\ log = LogWindow(nadds)
    /\ LET r == caller[LogReader] IN
       (r.pc = "recent_done" /\ r.n >= 1) =>
           LET len == Len(r.msgs)
               m == IF r.n < len THEN r.n ELSE len
           IN  /\ \E k \in 0..nadds : r.msgs = LogWindow(k)
               /\ r.result = [j \in 1..m |-> r.msgs[len - m + j]]

\* The log is full and has evicted; a recent(n) with 1 <= n < length has
\* returned n messages of a copy that an add has since overtaken.
C8_Witness ==
    /\ nadds > CHAT_MAXLEN
    /\ Len(log) = CHAT_MAXLEN
    /\ LET r == caller[LogReader] IN
       /\ r.pc = "recent_done"
       /\ r.n >= 1
       /\ r.n < Len(r.msgs)
       /\ Len(r.result) = r.n
       /\ Len(r.msgs) = CHAT_MAXLEN
       /\ r.msgs # log

-----------------------------------------------------------------------------
(* Properties of run_agent (specification Spec)                             *)

\* The send_input calls of the current cycle: those made and those still to make.
CycleSends == sent \o pending

\* The displacement is below epsilon for the STUCK_THRESHOLD-th consecutive cycle.
CycleOverride == cyc.low /\ cyc.before + 1 >= STUCK_THRESHOLD

\* C1: in every cycle that has observed, the rules are tried in the order stuck
\* override, deposit, upgrade, policy and the first that applies decides the
\* cycle: find_target is invoked only if the override did not fire, carried <
\* capacity and the upgrade condition is false; Destroy/Deposit are sent only by
\* the deposit rule, BuySpeed only by the upgrade rule, Collect only by the policy.
C1_RuleOrder ==
    cyc.rule # "" =>
        /\ (cyc.rule = "stuck" <=> CycleOverride)
        /\ (cyc.rule = "deposit" <=> ~CycleOverride /\ cyc.full)
        /\ (cyc.rule = "upgrade" <=> ~CycleOverride /\ ~cyc.full /\ cyc.upgrade)
        /\ (cyc.rule = "policy" <=> ~CycleOverride /\ ~cyc.full /\ ~cyc.upgrade)
        /\ (cyc.called => ~CycleOverride /\ ~cyc.full /\ ~cyc.upgrade)
        /\ (cyc.rule = "policy" => cyc.called)
        /\ \A k \in 1..Len(CycleSends) :
              /\ CycleSends[k].type \in {"Destroy", "Deposit"} => cyc.rule = "deposit"
              /\ CycleSends[k].type = "BuySpeed" => cyc.rule = "upgrade"
              /\ CycleSends[k].type = "Collect" => cyc.rule = "policy"

\* A finished cycle in which find_target was invoked and its Collect dispatched
\* although the player had not moved (the stuck counter still below the threshold).
C1_Witness ==
    /\ pc = "top"
    /\ cyc.called
    /\ cyc.failed = ""
    /\ cyc.low
    /\ sent = <<Collect>>

\* C2: in a cycle whose displacement is below 1.0 for the fifth consecutive
\* time, and in no earlier cycle of the run, the loop plans MoveTo(baseCenter)
\* and nothing else, invokes no rule after the override, and -- the dispatch
\* having returned -- ends the cycle with the stuck counter at zero.  In every
\* other cycle the counter ends at the number of consecutive cycles with a
\* displacement below 1.0 (zero after a larger displacement).
C2_StuckOverride ==
    cyc.rule # "" =>
        /\ CycleOverride =>
              /\ cyc.rule = "stuck"
              /\ ~cyc.called
              /\ CycleSends \in {<<>>, <<MoveTo(AtBase)>>}
              /\ (cyc.failed = "" => CycleSends = <<MoveTo(AtBase)>>)
              /\ (pc = "top" /\ cyc.failed = "" =>
                     sent = <<MoveTo(AtBase)>> /\ stuck_cycles = 0)
        /\ ~CycleOverride =>
              /\ cyc.rule # "stuck"
              /\ (pc = "top" => stuck_cycles = IF cyc.low THEN cyc.before + 1 ELSE 0)

\* The fifth motionless cycle of a full player standing at a full base: the
\* override alone was dispatched and the counter is back to zero.
C2_Witness ==
    /\ pc = "top"
    /\ cyc.rule = "stuck"
    /\ cyc.before = STUCK_THRESHOLD - 1
    /\ cyc.at_cap
    /\ cyc.failed = ""
    /\ sent = <<MoveTo(AtBase)>>
    /\ stuck_cycles = 0

C4_StopAtTopOnly ==
    /\ [][pc = "top" /\ pc' # "top" =>
              IF stop THEN pc' = "done" ELSE pc' = "observe"]_vars
    /\ [][pc # "done" /\ pc' = "done" => pc = "top" /\ stop]_vars
    /\ [][stop' # stop => agentVars' = agentVars]_vars
    /\ [](stop /\ pc = "send" => ENABLED SendOk)
    /\ [][stop /\ pending # <<>> /\ pending' # pending /\ cyc'.failed = "" =>
              sent' = Append(sent, Head(pending)) /\ pending' = Tail(pending)]_vars
    /\ (stop ~> pc = "done")

\* The signal is set while a deposit cycle is between its two send_input calls
\* (it was not set when the cycle started): the Deposit is still to be made.
C4_Witness ==
    /\ stop
    /\ pc = "send"
    /\ sent = <<Destroy(1)>>
    /\ pending = <<Deposit>>

\* C5: an exception of observe(), of send_input or of find_target never ends
\* the loop: the step that raises takes the loop back to its top with the rest
\* of the cycle dropped, the loop is left only from its top with the stop
\* signal set, and after a failed cycle a new cycle observes again unless the
\* stop signal is set.
C5_FailureNeverFatal ==
    /\ [][cyc.failed = "" /\ cyc'.failed # "" =>
              pc' = "top" /\ pending' = <<>> /\ sent' = sent]_vars
    /\ [][pc # "done" /\ pc' = "done" => pc = "top" /\ stop /\ pending = <<>>]_vars
    /\ ((pc = "top" /\ cyc.failed # "" /\ ~stop) ~> (pc = "observe" \/ stop))

\* A cycle abandoned when its second send_input raised, the loop back at its
\* top and not stopped.
C5_Witness ==
    /\ pc = "top"
    /\ ~stop
    /\ cyc.failed = "send"
    /\ sent = <<Destroy(1)>>

\* C6: a notification thread that raises in the completion call or in the chat
\* post ends without a trace: the log, its lock and the loop's variables
\* (stuck counter, last position, chat counter, the calls made) are unchanged by
\* that step, and no step of a notification thread, failing or not, changes the
\* loop's variables.  The log changes only by the append of a thread that holds
\* its lock, a thread takes the lock only after its post returned, and reaches
\* the post only after its completion call returned.
C6_FailedNotificationDiscarded ==
    /\ [][tasks'.gen + tasks'.post < tasks.gen + tasks.post /\ tasks'.locked = tasks.locked =>
              /\ log' = log
              /\ nadds' = nadds
              /\ lock' = lock
              /\ agentVars' = agentVars]_vars
    /\ [][tasks' # tasks /\ tasks'.gen <= tasks.gen => agentVars' = agentVars]_vars
    /\ [][log' # log =>
              /\ tasks.locked > 0
              /\ tasks' = [tasks EXCEPT !.locked = @ - 1]
              /\ log' = Append(log, Message(nadds + 1))]_vars
    /\ [][tasks'.locked > tasks.locked =>
              tasks'.post = tasks.post - 1 /\ tasks'.gen = tasks.gen /\ log' = log]_vars
    /\ [][tasks'.post > tasks.post =>
              tasks'.gen = tasks.gen - 1 /\ tasks'.locked = tasks.locked /\ log' = log]_vars

\* The cycle just finished requested a notification (its chat counter is back
\* at zero after a policy cycle); that thread and every earlier one have ended,
\* and the log is still empty: each of them failed and left nothing behind.
C6_Witness ==
    /\ pc = "top"
    /\ cyc.called
    /\ cyc.failed = ""
    /\ chat_counter = 0
    /\ TasksLive = 0
    /\ nadds = 0
    /\ log = <<>>

\* C7: the loop never waits for a notification thread: whatever the number of
\* notification threads in flight, the loop at its top can start the next
\* cycle, a cycle can observe, make its pending send_input call, pass the chat
\* step, take the free lock for recent() and start the next thread; the thread
\* it starts leaves the loop at the top of the next cycle.
C7_FireAndForget ==
    /\ (pc = "top" /\ ~stop => ENABLED LoopEnter)
    /\ (pc = "top" /\ stop => ENABLED LoopExit)
    /\ (pc = "observe" => ENABLED (\E s \in AgentSnapshots : Observe(s)))
    /\ (pc = "send" => ENABLED SendOk)
    /\ (pc = "chat" => ENABLED ChatSkip)
    /\ (pc = "recent" /\ lock = "free" => ENABLED AgentRecentEnter)
    /\ (pc = "recent_locked" => ENABLED AgentRecentSpawn)

\* Two notification threads are still in flight (one not past its completion
\* call) while a later cycle of the loop has made both calls of a deposit.
C7_Witness ==
    /\ TasksLive >= 2
    /\ tasks.gen >= 1
    /\ pc = "top"
    /\ cyc.rule = "deposit"
    /\ sent = <<Destroy(1), Deposit>>

-----------------------------------------------------------------------------
(* Properties of run_agent (specification Spec), continued                  *)

\* A cycle has run to its end and no collaborator call of it has failed.
CycleCompleted == pc = "top" /\ cyc.rule # "" /\ cyc.failed = ""

\* C19 as stated: in every cycle that completes without a collaborator
\* failure exactly one send_input call is made.
C19_OneSendPerCycle == CycleCompleted => Len(sent) = 1

\* C19 amended: a cycle that completes without a collaborator failure makes
\* exactly one send_input call, except that a deposit at a base that is at its
\* cap makes two (Destroy, then Deposit) and a cycle in which the policy
\* returns Wait makes none.
C19_SendsPerCycle ==
    CycleCompleted =>
        Len(sent) = IF cyc.rule = "deposit" /\ cyc.at_cap THEN 2
                    ELSE IF cyc.rule = "policy" /\ cyc.action.type = "Wait" THEN 0
                    ELSE 1

\* A cycle in which the policy returned Wait has completed and nothing was sent.
C19_Witness ==
    /\ CycleCompleted
    /\ cyc.rule = "policy"
    /\ cyc.action.type = "Wait"
    /\ sent = <<>>

\* C20: when the snapshot has no wave entity the tsunami_x handed to
\* find_target is the sentinel -500, otherwise the least x of the wave entities;
\* the sentinel is not beyond the activity threshold -400; and in a cycle
\* without wave entities TryhardStrategy.find_target does not return Wait.
C20_NoWaveSentinel ==
    cyc.called =>
        /\ cyc.waves = <<>> => cyc.tsunami_x = Unit * TSUNAMI_ABSENT_X
        /\ cyc.waves # <<>> =>
              /\ \E i \in 1..Len(cyc.waves) : cyc.tsunami_x = cyc.waves[i]
              /\ \A i \in 1..Len(cyc.waves) : cyc.tsunami_x <= cyc.waves[i]
        /\ cyc.waves = <<>> =>
              /\ ~(cyc.tsunami_x > Unit * TSUNAMI_INACTIVE_X)
              /\ cyc.action.type # "Wait"

\* A cycle without wave entities and without candidates, the player at the
\* base: the policy returns None (not Wait), the cycle sends the player to the
\* base centre and completes.
C20_Witness ==
    /\ CycleCompleted
    /\ cyc.called
    /\ cyc.waves = <<>>
    /\ cyc.tsunami_x = Unit * TSUNAMI_ABSENT_X
    /\ cyc.action.type = "None"
    /\ last_position = AtBase
    /\ sent = <<MoveTo(AtBase)>>

\* C23: whenever find_target returns None, the cycle dispatches
\* MoveTo(base_center) and nothing else.
C23_NoneMovesToBase ==
    (cyc.called /\ cyc.failed = "" /\ cyc.action.type = "None") =>
        /\ CycleSends = <<MoveTo(AtBase)>>
        /\ pc \in {"chat", "recent", "recent_locked", "top"} => sent = <<MoveTo(AtBase)>>

\* The player is out in the field, the policy returned None, and
\* MoveTo(base_center) was the one call sent.
C23_Witness ==
    /\ pc = "chat"
    /\ cyc.called
    /\ cyc.action.type = "None"
    /\ last_position = Afield
    /\ sent = <<MoveTo(AtBase)>>

\* C27 as stated: BuySpeed is sent only in a cycle where the upgrade condition
\* holds with the player within SHOP_RADIUS of the shop, and in every cycle
\* where the condition holds with the player farther away the only action
\* sent is MoveTo(SPEED_SHOP).
C27_FarFromShopMovesToShop ==
    /\ (\E k \in 1..Len(CycleSends) : CycleSends[k] = BuySpeed) =>
          /\ cyc.upgrade
          /\ ~cyc.full
          /\ cyc.near_shop
    /\ (cyc.rule # "" /\ cyc.failed = "" /\ cyc.upgrade /\ ~cyc.near_shop) =>
          CycleSends = <<MoveTo(SPEED_SHOP)>>

\* C27: BuySpeed is sent only in a cycle where the upgrade condition holds
\* (carried = 0, so carried < capacity, cost > 0, money >= cost *
\* upgrade_threshold, speed level < 10) and the player is within 20 of the shop,
\* and it is then the only call; under the same condition farther from the shop
\* the only call is MoveTo(SPEED_SHOP), unless the stuck override takes the
\* cycle and the only call is MoveTo(base_center); so BuySpeed is never sent at
\* speed level 10 or while carrying.
C27_BuySpeedOnlyAtShop ==
    /\ (\E k \in 1..Len(CycleSends) : CycleSends[k] = BuySpeed) =>
          /\ cyc.upgrade
          /\ ~cyc.full
          /\ cyc.near_shop
          /\ cyc.rule = "upgrade"
          /\ CycleSends = <<BuySpeed>>
    /\ (cyc.rule # "" /\ cyc.failed = "" /\ cyc.upgrade /\ ~cyc.near_shop) =>
          CycleSends = IF CycleOverride THEN <<MoveTo(AtBase)>> ELSE <<MoveTo(SPEED_SHOP)>>

\* The player stands at the shop with the upgrade affordable: BuySpeed was sent
\* and the cycle is over.
C27_Witness ==
    /\ pc = "top"
    /\ cyc.upgrade
    /\ cyc.near_shop
    /\ cyc.failed = ""
    /\ last_position = SPEED_SHOP
    /\ sent = <<BuySpeed>>

\* C30 as stated: at the end of every cycle, failed ones included, the stuck
\* counter is at least 0 and below STUCK_THRESHOLD.
C30_CounterBelowThreshold ==
    pc = "top" => stuck_cycles >= 0 /\ stuck_cycles < STUCK_THRESHOLD

\* C30: at the end of every cycle whose observe() returned, the stuck counter is
\* at least 0 and below STUCK_THRESHOLD, unless the send_input of a stuck
\* override raised in that cycle: then line 209 was skipped and the counter is
\* still at STUCK_THRESHOLD or above.  A cycle whose observe() raises leaves the
\* counter as it was.  The override is taken only in a cycle that starts with
\* the counter at STUCK_THRESHOLD - 1 or above, a dispatched override ends with
\* the counter at 0, and no step raises the counter by more than one: so an
\* override that follows a dispatched one comes after at least
\* STUCK_THRESHOLD - 1 cycles without an override.
C30_CounterAfterCycle ==
    /\ [](/\ stuck_cycles >= 0
          /\ (pc = "top" /\ cyc.rule # "" /\ ~(cyc.rule = "stuck" /\ cyc.failed = "send")) =>
                stuck_cycles < STUCK_THRESHOLD
          /\ (pc = "top" /\ cyc.rule = "stuck" /\ cyc.failed = "send") =>
                stuck_cycles >= STUCK_THRESHOLD
          /\ (pc = "top" /\ cyc.rule = "stuck" /\ cyc.failed = "") => stuck_cycles = 0
          /\ cyc.rule = "stuck" => cyc.before >= STUCK_THRESHOLD - 1)
    /\ [][/\ stuck_cycles' <= stuck_cycles + 1
          /\ (pc = "observe" /\ cyc'.failed = "observe") => stuck_cycles' = stuck_cycles]_vars

\* The send_input of a stuck override has raised: the cycle is over and the
\* counter is still at the threshold.
C30_Witness ==
    /\ pc = "top"
    /\ cyc.rule = "stuck"
    /\ cyc.failed = "send"
    /\ sent = <<>>
    /\ stuck_cycles = STUCK_THRESHOLD

\* C24: in a cycle that follows one in which find_target returned Wait, with the
\* player where it was (displacement below 1.0), still carrying less than its
\* capacity, no upgrade affordable and a snapshot for which find_target returns
\* Wait again (hazard active, nothing reachable, player within 20 of the base
\* centre), the loop sends nothing.
C24_IdleWhileWaiting ==
    (/\ cyc.rule # ""
     /\ cyc.failed = ""
     /\ cyc.after_wait
     /\ cyc.low
     /\ ~cyc.full
     /\ ~cyc.upgrade) => CycleSends = <<>>

\* Policy cycles still to come before chat_counter reaches config.chat_interval.
CyclesToChat(counter) == IF counter >= ChatInterval THEN 0 ELSE ChatInterval - counter

\* C28: at the end of a cycle whose action was Collect of a Secret, Legendary or
\* Epic brainrot, the number of policy cycles until chat_counter reaches
\* chat_interval is no larger than it was when the cycle started.
C28_ChatSoonerAfterCollect ==
    (/\ pc = "top"
     /\ cyc.rule = "policy"
     /\ cyc.failed = ""
     /\ cyc.action.type = "Collect"
     /\ cyc.action.rarity \in {"Secret", "Legendary", "Epic"}) =>
        CyclesToChat(chat_counter) <= CyclesToChat(cyc.counter)

\* C29: at most one thread is inside ChatLog.add or ChatLog.recent: the lock is
\* held by the loop exactly while it copies the log in recent() and by a
\* notification thread exactly while it appends in add(), never by both.  The
\* holder is at no network call: the loop holds the lock neither in observe()
\* nor in send_input, and a notification thread takes it only after its
\* completion call and its chat post have returned.  When the loop finds the
\* lock taken at recent(), the holder is a thread inside add(), which can
\* append and release the lock without waiting for anything.
C29_LogLockedOnlyInMemory ==
    /\ lock \in {"free", "agent", "task"}
    /\ (lock = "agent") <=> (pc = "recent_locked")
    /\ (lock = "task") <=> (tasks.locked > 0)
    /\ tasks.locked + (IF pc = "recent_locked" THEN 1 ELSE 0) <= 1
    /\ (pc \in {"observe", "send"} /\ lock # "free") => lock = "task"
    /\ (pc = "recent" /\ lock # "free") => (lock = "task" /\ ENABLED TaskAddAppend)

\* The loop is at recent() while a notification thread is inside add().
C29_Witness ==
    /\ pc = "recent"
    /\ lock = "task"
    /\ tasks.locked = 1

====
